---- MODULE Spec2Model ----
(***************************************************************************)
(* A model of the nautilus_core backtesting core: fixed-point scalars,     *)
(* the order state machine, the position engine, the simulated exchange    *)
(* and the backtest driver.                                                *)
(*                                                                         *)
(* Decimal values are integers counted in tenths (one unit = 0.1).  A      *)
(* value of precision 0 is a multiple of 10 units, a value of precision 1  *)
(* any integer.  Money is counted in thousandths (quantity tenths x price   *)
(* tenths x fee tenths).  Quotients of Decimals (average prices) are kept  *)
(* as exact fractions [n, d].                                              *)
(***************************************************************************)
EXTENDS Integers, Sequences, FiniteSets, TLC

VARIABLES
    ord,      \* the Order entity under test (orders.py)
    ordLast,  \* the last Order.apply call: its event and what it raised
    pos,      \* the Position entity under test (position.py)
    posLast,  \* the last Position.apply call: its fill
    chk,      \* one _check_fill call: its order, its bar and what it returned
    drv,      \* BacktestEngine.run: where it stands, its clock, its data
    exch,     \* SimulatedExchange: resting orders, counters, venue account
    exec,     \* ExecutionEngine and its RiskEngine
    cache,    \* Cache: instruments, orders, positions, bars
    hist      \* per order: where it was submitted, evaluated and filled

varsOrd == <<ord, ordLast>>

varsPos == <<pos, posLast>>

varsChk == <<chk>>

varsEng == <<drv, exch, exec, cache, hist>>

vars == <<ord, ordLast, pos, posLast, chk, drv, exch, exec, cache, hist>>

(***************************************************************************)
(* Bounds of the model.                                                    *)
(***************************************************************************)
\* quantities range over the multiples of 0.5 up to MaxQtySteps * 0.5
MaxQtySteps == 3
\* prices range over the multiples of 0.5 up to MaxPxSteps * 0.5
MaxPxSteps == 2
\* number of Order.apply calls made on one order
MaxApply == 2
\* number of fills applied to one position
MaxFills == 3
\* number of orders the strategy submits in one run
MaxOrders == 2
\* number of bars in the data of one run
MaxBars == 2
\* number of market orders the strategy submits in a run on two instruments
MaxNetOrders == 3

QtySet == {5 * k : k \in 0..MaxQtySteps}
PxSet == {5 * k : k \in 1..MaxPxSteps}
PrecSet == {0, 1}
\* event timestamps
TsSet == {0, 1}

(***************************************************************************)
(* Fixed-point scalars (objects.py).                                       *)
(***************************************************************************)
Abs(x) == IF x < 0 THEN -x ELSE x

Min(a, b) == IF a <= b THEN a ELSE b

Max(a, b) == IF a >= b THEN a ELSE b

\* 10 ** -precision, in model units of one tenth
UnitOf(prec) == IF prec = 0 THEN 10 ELSE 1

\* Decimal.quantize(unit, rounding=ROUND_HALF_UP): ties go away from zero
Quantize(v, unit) ==
    IF v >= 0 THEN ((2 * v + unit) \div (2 * unit)) * unit
    ELSE -(((2 * (-v) + unit) \div (2 * unit)) * unit)

\* Price(value, precision)._value
PriceValue(v, prec) == Quantize(v, UnitOf(prec))

\* Quantity(value, precision)._value; the constructor raises when it is < 0
QuantityValue(v, prec) == Quantize(v, UnitOf(prec))

QuantityRaises(v, prec) == QuantityValue(v, prec) < 0

\* the quantities that have precision prec
QtyOfPrec(prec) == {q \in QtySet : QuantityValue(q, prec) = q}

(***************************************************************************)
(* Exact fractions for Decimal quotients.                                  *)
(***************************************************************************)
RECURSIVE Gcd(_, _)
Gcd(a, b) == IF b = 0 THEN a ELSE Gcd(b, a % b)

Rat(n, d) ==
    LET g == Gcd(Abs(n), Abs(d))
        s == IF d < 0 THEN -1 ELSE 1
    IN  IF n = 0 THEN [n |-> 0, d |-> 1]
        ELSE [n |-> s * (n \div g), d |-> s * (d \div g)]

RInt(i) == [n |-> i, d |-> 1]

RAdd(a, b) == Rat(a.n * b.d + b.n * a.d, a.d * b.d)

RSub(a, b) == Rat(a.n * b.d - b.n * a.d, a.d * b.d)

RMul(a, b) == Rat(a.n * b.n, a.d * b.d)

RDiv(a, b) == Rat(a.n * b.d, a.d * b.n)

RZero == RInt(0)

(***************************************************************************)
(* Order state machine (enums.py, orders.py).                              *)
(***************************************************************************)
None == <<>>

Some(v) == <<v>>

OrderStatus ==
    {"INITIALIZED", "DENIED", "SUBMITTED", "ACCEPTED", "REJECTED", "CANCELED",
     "EXPIRED", "TRIGGERED", "PENDING_UPDATE", "PENDING_CANCEL",
     "PARTIALLY_FILLED", "FILLED"}

OrderTypes == {"MARKET", "LIMIT", "STOP_MARKET", "STOP_LIMIT"}

OrderSides == {"BUY", "SELL"}

ORDER_STATUS_TRANSITIONS(s) ==
    CASE s = "INITIALIZED" -> {"DENIED", "SUBMITTED"}
      [] s = "SUBMITTED" -> {"ACCEPTED", "REJECTED", "CANCELED"}
      [] s = "ACCEPTED" ->
            {"CANCELED", "EXPIRED", "TRIGGERED", "PENDING_UPDATE",
             "PENDING_CANCEL", "PARTIALLY_FILLED", "FILLED"}
      [] s = "TRIGGERED" ->
            {"CANCELED", "EXPIRED", "PENDING_UPDATE", "PENDING_CANCEL",
             "PARTIALLY_FILLED", "FILLED"}
      [] s = "PENDING_UPDATE" ->
            {"ACCEPTED", "CANCELED", "EXPIRED", "TRIGGERED",
             "PARTIALLY_FILLED", "FILLED"}
      [] s = "PENDING_CANCEL" ->
            {"CANCELED", "ACCEPTED", "PARTIALLY_FILLED", "FILLED"}
      [] s = "PARTIALLY_FILLED" ->
            {"CANCELED", "EXPIRED", "PENDING_UPDATE", "PENDING_CANCEL",
             "PARTIALLY_FILLED", "FILLED"}
      [] OTHER -> {}

\* _EVENT_TO_STATUS for the events that carry their own target
EventToStatus(type) ==
    CASE type = "OrderInitialized" -> "INITIALIZED"
      [] type = "OrderDenied" -> "DENIED"
      [] type = "OrderSubmitted" -> "SUBMITTED"
      [] type = "OrderAccepted" -> "ACCEPTED"
      [] type = "OrderRejected" -> "REJECTED"
      [] type = "OrderCanceled" -> "CANCELED"
      [] type = "OrderExpired" -> "EXPIRED"

\* Order.__init__: the order built from an OrderInitialized event; pprec is
\* the precision of its limit price
NewOrder(id, strat, instr, type, side, qty, qprec, price, pprec, trigger, ts_event, ts_init) ==
    [side |-> side,
     qprec |-> qprec,
     price |-> price,
     pprec |-> pprec,
     ts_init |-> ts_init,
     client_order_id |-> id,
     strategy_id |-> strat,
     instrument_id |-> instr,
     order_type |-> type,
     quantity |-> qty,
     status |-> "INITIALIZED",
     filled_qty |-> QuantityValue(0, qprec),
     leaves_qty |-> QuantityValue(qty, qprec),
     avg_px |-> RZero,
     venue_order_id |-> 0,
     events |-> << [type |-> "OrderInitialized", ts |-> ts_event] >>,
     ts_last |-> ts_event,
     trigger_price |-> trigger]

is_open(o) ==
    o.status \in {"ACCEPTED", "TRIGGERED", "PENDING_UPDATE", "PENDING_CANCEL",
                  "PARTIALLY_FILLED"}

is_closed(o) ==
    o.status \in {"DENIED", "REJECTED", "CANCELED", "EXPIRED", "FILLED"}

\* a transition check that lets a FILLED order be canceled
CheckTransition_Mut(status, new_status) ==
    \/ new_status \in ORDER_STATUS_TRANSITIONS(status)
    \/ status = "FILLED" /\ new_status = "CANCELED"

\* _check_transition: TRUE when it does not raise
CheckTransition(status, new_status) ==
    new_status \in ORDER_STATUS_TRANSITIONS(status)

\* An event record; the fields a type does not carry hold their defaults.
MkEvent(type, ts, void, last_qty, last_px, quantity, qprec, price, trigger) ==
    [type |-> type,
     qprec |-> qprec,
     price |-> price,
     quantity |-> quantity,
     venue_order_id |-> void,
     ts |-> ts,
     trigger_price |-> trigger,
     last_qty |-> last_qty,
     last_px |-> last_px]

StatusEvent(type, ts, void) == MkEvent(type, ts, void, 0, 0, None, 0, None, None)

FilledEvent(ts, void, last_qty, last_px) ==
    MkEvent("OrderFilled", ts, void, last_qty, last_px, None, 0, None, None)

UpdatedEvent(ts, quantity, qprec, price, trigger) ==
    MkEvent("OrderUpdated", ts, 0, 0, 0, quantity, qprec, price, trigger)

\* the outcome of a call: the order as the call left it, and what it raised
Outcome(o, err) == [o |-> o, err |-> err]

\* Order._apply_filled: the fields are assigned before the transition is checked
ApplyFilled(o, e) ==
    LET prev_filled == o.filled_qty
        new_filled == prev_filled + e.last_qty
        avg1 == IF new_filled > 0
                THEN RDiv(RAdd(RMul(o.avg_px, RInt(prev_filled)),
                               RInt(e.last_px * e.last_qty)),
                          RInt(new_filled))
                ELSE o.avg_px
        o1 == [o EXCEPT !.avg_px = avg1,
                        !.filled_qty = QuantityValue(new_filled, o.qprec)]
        left == o.quantity - new_filled
    IN  IF QuantityRaises(left, o.qprec) THEN Outcome(o1, "ValueError")
        ELSE LET o2 == [o1 EXCEPT !.leaves_qty = QuantityValue(left, o.qprec)]
                 new_status == IF o2.leaves_qty = 0 THEN "FILLED"
                               ELSE "PARTIALLY_FILLED"
             IN  IF ~CheckTransition(o2.status, new_status)
                 THEN Outcome(o2, "RuntimeError")
                 ELSE Outcome([o2 EXCEPT
                                 !.status = new_status,
                                 !.venue_order_id =
                                     IF e.venue_order_id # 0
                                     THEN e.venue_order_id ELSE @],
                              "none")

\* Order._apply_updated (base class), then the subclass's price fields
ApplyUpdated(o, e) ==
    LET o1 == IF e.quantity # None
              THEN [o EXCEPT !.quantity = e.quantity[1], !.qprec = e.qprec]
              ELSE o
        left == o1.quantity - o.filled_qty
        raises == e.quantity # None /\ QuantityRaises(left, e.qprec)
        o2 == IF e.quantity # None /\ ~raises
              THEN [o1 EXCEPT !.leaves_qty = QuantityValue(left, e.qprec)]
              ELSE o1
        o3 == [o2 EXCEPT !.status = "ACCEPTED"]
        o4 == IF o.order_type \in {"LIMIT", "STOP_LIMIT"} /\ e.price # None
              THEN [o3 EXCEPT !.price = e.price] ELSE o3
        o5 == IF o.order_type \in {"STOP_MARKET", "STOP_LIMIT"}
                 /\ e.trigger_price # None
              THEN [o4 EXCEPT !.trigger_price = e.trigger_price] ELSE o4
    IN  IF raises THEN Outcome(o1, "ValueError")
        ELSE IF ~CheckTransition(o2.status, "ACCEPTED")
             THEN Outcome(o2, "RuntimeError")
             ELSE Outcome(o5, "none")

\* Order.apply, other events: check, then assign
ApplyStatus(o, e) ==
    LET new_status == EventToStatus(e.type)
    IN  IF ~CheckTransition(o.status, new_status) THEN Outcome(o, "RuntimeError")
        ELSE Outcome([o EXCEPT
                        !.status = new_status,
                        !.venue_order_id =
                            IF e.type = "OrderAccepted" /\ e.venue_order_id # 0
                            THEN e.venue_order_id ELSE @],
                     "none")

\* Order.apply once the handler of the event type has returned or raised:
\* the event is recorded and ts_last set only when it returned
ApplyRecord(r, e) ==
    IF r.err # "none" THEN r
    ELSE Outcome([r.o EXCEPT
                    !.events = Append(@, [type |-> e.type, ts |-> e.ts]),
                    !.ts_last = e.ts],
                 "none")

\* Order.apply
Apply(o, e) ==
    ApplyRecord(CASE e.type = "OrderFilled" -> ApplyFilled(o, e)
                  [] e.type = "OrderUpdated" -> ApplyUpdated(o, e)
                  [] OTHER -> ApplyStatus(o, e),
                e)

(***************************************************************************)
(* Position engine (position.py).                                          *)
(***************************************************************************)
\* the part of an OrderFilled event a position reads
Fill(side, last_qty, qprec, last_px, commission) ==
    [qprec |-> qprec,
     last_qty |-> last_qty,
     last_px |-> last_px,
     commission |-> commission,
     order_side |-> side]

\* a side computed with the sign test of LONG widened to >= 0
UpdateSideAndQty_Mut(p) ==
    [p EXCEPT !.side = IF p.signed_qty >= 0 THEN "LONG" ELSE "SHORT",
              !.quantity = QuantityValue(Abs(p.signed_qty), p.qty_precision)]

\* Position._update_side_and_qty
UpdateSideAndQty(p) ==
    [p EXCEPT !.side = IF p.signed_qty > 0 THEN "LONG"
                       ELSE IF p.signed_qty < 0 THEN "SHORT" ELSE "FLAT",
              !.quantity = QuantityValue(Abs(p.signed_qty), p.qty_precision)]

\* an entry price that averages the old average and the fill price unweighted
AddToAvg_Mut(p, fill_qty, fill_px) ==
    IF p.signed_qty = 0 THEN RInt(fill_px)
    ELSE RDiv(RAdd(p.avg_px_open, RInt(fill_px)), RInt(2))

\* the weighted average entry price after adding fill_qty at fill_px
AddToAvg(p, fill_qty, fill_px) ==
    LET total_qty == Abs(p.signed_qty) + fill_qty
    IN  IF total_qty > 0
        THEN RDiv(RAdd(RMul(p.avg_px_open, RInt(Abs(p.signed_qty))),
                       RInt(fill_px * fill_qty)),
                  RInt(total_qty))
        ELSE p.avg_px_open

\* the closing branch shared by _apply_buy (dir = 1) and _apply_sell (dir = -1)
Reduce(p, fill_qty, fill_px, dir, pnl) ==
    LET close_qty == Min(fill_qty, Abs(p.signed_qty))
        remaining == fill_qty - close_qty
        signed == p.signed_qty + dir * fill_qty
    IN  [p EXCEPT !.realized_pnl = RAdd(@, pnl),
                  !.signed_qty = signed,
                  !.avg_px_open = IF remaining > 0 THEN RInt(fill_px) ELSE @,
                  !.avg_px_close = IF remaining > 0 \/ signed = 0
                                   THEN fill_px ELSE @]

\* Position._apply_buy
ApplyBuy(p, fill_qty, fill_px) ==
    UpdateSideAndQty(
        IF p.side \in {"FLAT", "LONG"}
        THEN [p EXCEPT !.avg_px_open = AddToAvg(p, fill_qty, fill_px),
                       !.signed_qty = @ + fill_qty]
        ELSE Reduce(p, fill_qty, fill_px, 1,
                    RMul(RInt(Min(fill_qty, Abs(p.signed_qty))),
                         RSub(p.avg_px_open, RInt(fill_px)))))

\* a sell that books the whole fill quantity as closed
ApplySell_Mut(p, fill_qty, fill_px) ==
    UpdateSideAndQty(
        IF p.side \in {"FLAT", "SHORT"}
        THEN [p EXCEPT !.avg_px_open = AddToAvg(p, fill_qty, fill_px),
                       !.signed_qty = @ - fill_qty]
        ELSE Reduce(p, fill_qty, fill_px, -1,
                    RMul(RInt(fill_qty),
                         RSub(RInt(fill_px), p.avg_px_open))))

\* Position._apply_sell
ApplySell(p, fill_qty, fill_px) ==
    UpdateSideAndQty(
        IF p.side \in {"FLAT", "SHORT"}
        THEN [p EXCEPT !.avg_px_open = AddToAvg(p, fill_qty, fill_px),
                       !.signed_qty = @ - fill_qty]
        ELSE Reduce(p, fill_qty, fill_px, -1,
                    RMul(RInt(Min(fill_qty, Abs(p.signed_qty))),
                         RSub(RInt(fill_px), p.avg_px_open))))

\* Position.apply
PositionApply(p, f) ==
    LET p1 == [p EXCEPT !.commissions = @ + f.commission]
        p2 == IF f.order_side = "BUY" THEN ApplyBuy(p1, f.last_qty, f.last_px)
              ELSE ApplySell(p1, f.last_qty, f.last_px)
    IN  [p2 EXCEPT !.events = Append(@, f)]

\* Position.__init__
NewPosition(id, instr, strat, f) ==
    PositionApply(
        [id |-> id,
         side |-> "FLAT",
         strategy_id |-> strat,
         instrument_id |-> instr,
         quantity |-> QuantityValue(0, f.qprec),
         events |-> << >>,
         signed_qty |-> 0,
         qty_precision |-> f.qprec,
         avg_px_open |-> RZero,
         realized_pnl |-> RZero,
         avg_px_close |-> 0,
         commissions |-> 0],
        f)

position_is_open(p) == p.side # "FLAT"

\* an is_closed that is never true
position_is_closed_Mut(p) == FALSE

position_is_closed(p) == p.side = "FLAT" /\ Len(p.events) > 0

(***************************************************************************)
(* Instruments, bars, money and the venue account (instruments.py,         *)
(* data.py, objects.py, account.py).                                       *)
(***************************************************************************)
\* Instrument.__init__: the fields the engines read; taker_fee is in tenths
Instrument(price_precision, size_precision, taker_fee, min_quantity, max_quantity) ==
    [price_precision |-> price_precision, size_precision |-> size_precision,
     taker_fee |-> taker_fee, min_quantity |-> min_quantity,
     max_quantity |-> max_quantity]

\* Bar: the instrument of its bar type, open/high/low, the precision of the
\* open price, ts_event
Bar(instr, open, high, low, open_prec, ts) ==
    [ts_event |-> ts,
     instrument_id |-> instr,
     open |-> open,
     high |-> high,
     low |-> low,
     open_prec |-> open_prec]

\* Money(amount, currency)._amount, in thousandths, for a currency of
\* precision 2 or 3
MoneyValue(amount, cprec) == Quantize(amount, IF cprec = 2 THEN 10 ELSE 1)

\* Account.balance_free / balance_total: None when the currency has no balance
BalanceFree(acct) ==
    IF acct.balances = None THEN None ELSE Some(acct.balances[1].free)

BalanceTotal(acct) ==
    IF acct.balances = None THEN None ELSE Some(acct.balances[1].total)

\* Account.update_balance: the balance is replaced; self._events is only
\* appended to by Account.apply, which nothing in the package calls
UpdateBalance(acct, total, locked, cprec) ==
    [acct EXCEPT !.balances =
        Some([free |-> MoneyValue(total - locked, cprec),
              total |-> MoneyValue(total, cprec),
              locked |-> MoneyValue(locked, cprec)])]

\* Account.update_commissions
UpdateCommissions(acct, amount) == [acct EXCEPT !.commissions = @ + amount]

\* SimulatedExchange.__init__: the account after the starting balances
NewAccount(starting, cprec) ==
    LET empty == [events |-> << >>, commissions |-> 0, balances |-> None]
    IN  IF starting = None THEN empty
        ELSE UpdateBalance(empty, starting[1], 0, cprec)

(***************************************************************************)
(* Sequences used as Python lists.                                         *)
(***************************************************************************)
InSeq(s, x) == \E i \in DOMAIN s : s[i] = x

\* list.remove(x): drops the first occurrence
RemoveFirst(s, x) ==
    IF ~InSeq(s, x) THEN s
    ELSE LET i == CHOOSE k \in DOMAIN s :
                      s[k] = x /\ \A j \in 1..(k - 1) : s[j] # x
         IN  SubSeq(s, 1, i - 1) \o SubSeq(s, i + 1, Len(s))

(***************************************************************************)
(* The engines as one bundle of the five engine variables.                 *)
(***************************************************************************)
World == [drv |-> drv, exch |-> exch, exec |-> exec, cache |-> cache,
          hist |-> hist]

Is(w) ==
    \E x \in {w} :
        /\ drv = x.drv
        /\ exch = x.exch
        /\ exec = x.exec
        /\ cache = x.cache
        /\ hist = x.hist

Becomes(w) ==
    \E x \in {w} :
        /\ drv' = x.drv
        /\ exch' = x.exch
        /\ exec' = x.exec
        /\ cache' = x.cache
        /\ hist' = x.hist

\* an exception propagates out of BacktestEngine.run
Raise(w) == [w EXCEPT !.drv.pc = "crashed"]

Crashed(w) == w.drv.pc = "crashed"

\* the datum being processed and its position in the data
BarNo(w) == Len(w.drv.data)

CurrentBar(w) == w.drv.data[Len(w.drv.data)]

(***************************************************************************)
(* Risk engine and portfolio (risk_engine.py, portfolio.py, cache.py).     *)
(***************************************************************************)
\* Cache.positions_open(instrument_id): position ids in insertion order
PositionsOpen(c, instr) ==
    {i \in DOMAIN c.positions :
        c.positions[i].instrument_id = instr /\ position_is_open(c.positions[i])}

RECURSIVE SumSignedQty(_, _)
SumSignedQty(c, ids) ==
    IF ids = {} THEN 0
    ELSE LET i == CHOOSE k \in ids : TRUE
         IN  c.positions[i].signed_qty + SumSignedQty(c, ids \ {i})

\* Portfolio.net_position
NetPosition(c, instr) == SumSignedQty(c, PositionsOpen(c, instr))

\* RiskEngine.validate_order: the reason of the denial, "" when it passes
ValidateOrder(w, o) ==
    LET c == w.cache
        instrument == c.instruments[o.instrument_id]
        net == NetPosition(c, o.instrument_id)
    IN  IF w.exec.trading_state = "HALTED" THEN "Trading is HALTED"
        ELSE IF o.instrument_id \notin DOMAIN c.instruments
        THEN "No instrument found"
        ELSE IF o.qprec # instrument.size_precision
        THEN "Invalid quantity precision"
        ELSE IF /\ instrument.min_quantity # None
                /\ instrument.min_quantity[1] > 0
                /\ o.quantity < instrument.min_quantity[1]
        THEN "Quantity below minimum"
        ELSE IF /\ instrument.max_quantity # None
                /\ instrument.max_quantity[1] > 0
                /\ o.quantity > instrument.max_quantity[1]
        THEN "Quantity above maximum"
        ELSE IF o.price # None /\ o.price[1] <= 0
        THEN "Price must be positive"
        ELSE IF o.price # None /\ o.pprec # instrument.price_precision
        THEN "Invalid price precision"
        ELSE IF /\ w.exec.trading_state = "REDUCING"
                /\ \/ o.side = "BUY" /\ net >= 0
                   \/ o.side = "SELL" /\ net <= 0
        THEN "Trading state is REDUCING"
        ELSE ""

(***************************************************************************)
(* Execution engine: order events (execution_engine.py).                   *)
(***************************************************************************)
\* _handle_order_event after order.apply(event) with outcome r: the cache
\* holds the order as the call left it; the event is published if it returned
UpdateAndPublish(w, id, e, r) ==
    IF r.err # "none" THEN Raise([w EXCEPT !.cache.orders[id] = r.o])
    ELSE [w EXCEPT !.cache.orders[id] = r.o,
                   !.hist[id].published =
                       Append(@, [type |-> e.type, topic |-> r.o.strategy_id])]

\* ExecutionEngine._handle_order_event: apply, cache.update_order, publish
\* (the strategy's handlers of these events do nothing)
HandleOrderEvent(w, id, e) ==
    UpdateAndPublish(w, id, e, Apply(w.cache.orders[id], e))

(***************************************************************************)
(* Simulated exchange (backtest/exchange.py).                              *)
(***************************************************************************)
\* process_order after the OrderAccepted event: self._open_orders.append(order)
Rest(w, id) ==
    IF Crashed(w) THEN w
    ELSE [w EXCEPT !.exch.open_orders = Append(@, id),
                   !.hist[id].accepted = TRUE]

\* SimulatedExchange.process_order: accept the order, then let it rest
ProcessOrder(w, id) ==
    LET o == w.cache.orders[id]
        void == w.exch.venue_order_counter + 1
    IN  Rest(HandleOrderEvent([w EXCEPT !.exch.venue_order_counter = void], id,
                              StatusEvent("OrderAccepted", o.ts_init, void)),
             id)

\* SimulatedExchange.cancel_order
CancelOrder(w, id) ==
    LET o == w.cache.orders[id]
    IN  IF ~InSeq(w.exch.open_orders, id) THEN w
        ELSE HandleOrderEvent(
                 [w EXCEPT !.exch.open_orders = RemoveFirst(@, id)],
                 id, StatusEvent("OrderCanceled", o.ts_last, o.venue_order_id))

\* instrument.price_precision if instrument else bar.open.precision
PricePrecision(w, o, b) ==
    IF o.instrument_id \in w.exch.instruments
    THEN w.cache.instruments[o.instrument_id].price_precision
    ELSE b.open_prec

\* a matching rule that fills a BUY stop at its trigger even on a gap open
CheckFill_Mut(o, b, price_prec) ==
    CASE o.order_type = "MARKET" -> Some(b.open)
      [] o.order_type = "LIMIT" ->
            IF o.side = "BUY"
            THEN IF b.low <= o.price[1]
                 THEN Some(PriceValue(Min(o.price[1], b.open), price_prec))
                 ELSE None
            ELSE IF b.high >= o.price[1]
                 THEN Some(PriceValue(Max(o.price[1], b.open), price_prec))
                 ELSE None
      [] o.order_type = "STOP_MARKET" ->
            IF o.side = "BUY"
            THEN IF b.high >= o.trigger_price[1]
                 THEN Some(PriceValue(o.trigger_price[1], price_prec))
                 ELSE None
            ELSE IF b.low <= o.trigger_price[1]
                 THEN Some(PriceValue(Min(o.trigger_price[1], b.open), price_prec))
                 ELSE None
      [] o.order_type = "STOP_LIMIT" ->
            IF o.side = "BUY"
            THEN IF b.high >= o.trigger_price[1] /\ b.low <= o.price[1]
                 THEN Some(PriceValue(
                          Min(o.price[1], Max(o.trigger_price[1], b.open)),
                          price_prec))
                 ELSE None
            ELSE IF b.low <= o.trigger_price[1] /\ b.high >= o.price[1]
                 THEN Some(PriceValue(
                          Max(o.price[1], Min(o.trigger_price[1], b.open)),
                          price_prec))
                 ELSE None

\* SimulatedExchange._check_fill: None, or the fill price
CheckFill(o, b, price_prec) ==
    CASE o.order_type = "MARKET" -> Some(b.open)
      [] o.order_type = "LIMIT" ->
            IF o.side = "BUY"
            THEN IF b.low <= o.price[1]
                 THEN Some(PriceValue(Min(o.price[1], b.open), price_prec))
                 ELSE None
            ELSE IF b.high >= o.price[1]
                 THEN Some(PriceValue(Max(o.price[1], b.open), price_prec))
                 ELSE None
      [] o.order_type = "STOP_MARKET" ->
            IF o.side = "BUY"
            THEN IF b.high >= o.trigger_price[1]
                 THEN Some(PriceValue(Max(o.trigger_price[1], b.open), price_prec))
                 ELSE None
            ELSE IF b.low <= o.trigger_price[1]
                 THEN Some(PriceValue(Min(o.trigger_price[1], b.open), price_prec))
                 ELSE None
      [] o.order_type = "STOP_LIMIT" ->
            IF o.side = "BUY"
            THEN IF b.high >= o.trigger_price[1] /\ b.low <= o.price[1]
                 THEN Some(PriceValue(
                          Min(o.price[1], Max(o.trigger_price[1], b.open)),
                          price_prec))
                 ELSE None
            ELSE IF b.low <= o.trigger_price[1] /\ b.high >= o.price[1]
                 THEN Some(PriceValue(
                          Max(o.price[1], Min(o.trigger_price[1], b.open)),
                          price_prec))
                 ELSE None

\* commission_rate: the taker fee of the instrument if the exchange has it
CommissionRate(w, o) ==
    IF o.instrument_id \in w.exch.instruments
    THEN w.cache.instruments[o.instrument_id].taker_fee
    ELSE 0

\* an account update that posts the unrounded amount
FillAccount_Mut(acct, side, notional, commission_amount, cprec) ==
    LET current == BalanceFree(acct)
        new_total == IF side = "BUY"
                     THEN current[1] - (notional + commission_amount)
                     ELSE current[1] + (notional - commission_amount)
    IN  UpdateCommissions(
            IF current # None
            THEN [acct EXCEPT !.balances =
                     Some([free |-> new_total, total |-> new_total, locked |-> 0])]
            ELSE acct,
            commission_amount)

\* _fill_order, the account part: debit or credit the free balance when the
\* account has one, then accumulate the commission
FillAccount(acct, side, notional, commission_amount, cprec) ==
    LET current == BalanceFree(acct)
        new_total == IF side = "BUY"
                     THEN current[1] - (notional + commission_amount)
                     ELSE current[1] + (notional - commission_amount)
    IN  UpdateCommissions(
            IF current # None THEN UpdateBalance(acct, new_total, 0, cprec)
            ELSE acct,
            commission_amount)

\* the strategy's on_order_filled is entered with the fill still to be
\* applied to a position
EnterOnOrderFilled(w, id, f) ==
    IF Crashed(w) THEN w
    ELSE [w EXCEPT !.drv.pc = "order_event",
                   !.drv.fill_id = id,
                   !.drv.fill = Some(f)]

\* ExecutionEngine._handle_fill up to the publication of the OrderFilled
\* event: the strategy's on_order_filled runs before the position is touched
HandleFill(w, id, e, f) == EnterOnOrderFilled(HandleOrderEvent(w, id, e), id, f)

\* the fill as the history keeps it, once _handle_fill has left the world w2
RecordFill(w, w2, id, fill_px, rate, commission, acct) ==
    [w2 EXCEPT !.hist[id].fills =
        Append(@, [last_qty |-> w.cache.orders[id].leaves_qty,
                   last_px |-> fill_px,
                   commission |-> commission,
                   rate |-> rate,
                   bar |-> BarNo(w),
                   leaves_before |-> w.cache.orders[id].leaves_qty,
                   status_after |-> w2.cache.orders[id].status,
                   balance_before |-> BalanceFree(w.exch.account),
                   balance_after |-> BalanceFree(acct),
                   commissions_before |-> w.exch.account.commissions,
                   commissions_after |-> acct.commissions])]

\* _fill_order with the commission and the updated account at hand: the
\* trade counter, the account, then the OrderFilled event
FillOrderWith(w, id, fill_px, ts, rate, commission, acct) ==
    LET o == w.cache.orders[id]
    IN  RecordFill(w,
                   HandleFill([w EXCEPT !.exch.trade_counter = @ + 1,
                                        !.exch.account = acct],
                              id,
                              FilledEvent(ts, o.venue_order_id, o.leaves_qty, fill_px),
                              Fill(o.side, o.leaves_qty, o.qprec, fill_px, commission)),
                   id, fill_px, rate, commission, acct)

\* SimulatedExchange._fill_order: one fill of the whole leaves_qty
FillOrder(w, id, fill_px, ts) ==
    LET o == w.cache.orders[id]
        rate == CommissionRate(w, o)
        fill_qty == o.leaves_qty
        cprec == w.exch.currency_precision
    IN  FillOrderWith(w, id, fill_px, ts, rate,
                      MoneyValue(fill_qty * fill_px * rate, cprec),
                      FillAccount(w.exch.account, o.side, fill_qty * fill_px * 10,
                                  fill_qty * fill_px * rate, cprec))

\* process_bar: `if fill_px is not None: self._fill_order(...)`
FillIfMatched(w, id, fill_px, ts) ==
    IF fill_px = None THEN w ELSE FillOrder(w, id, fill_px[1], ts)

\* process_bar, one iteration of `for order in self._open_orders`
ProcessBarStep(w) ==
    LET id == w.exch.open_orders[w.drv.idx + 1]
        o == w.cache.orders[id]
        b == CurrentBar(w)
        w1 == [w EXCEPT !.drv.idx = @ + 1]
    IN  IF o.instrument_id # b.instrument_id THEN w1
        ELSE IF ~is_open(o)
        THEN [w1 EXCEPT !.drv.orders_to_remove = Append(@, id)]
        ELSE FillIfMatched([w1 EXCEPT !.hist[id].evals = Append(@, BarNo(w))],
                           id, CheckFill(o, b, PricePrecision(w, o, b)),
                           b.ts_event)

\* a final loop of process_bar that removes nothing
RemoveAll_Mut(list, rem) == list

\* process_bar, the final loop: drop every order marked for removal
RECURSIVE RemoveAll(_, _)
RemoveAll(list, rem) ==
    IF rem = << >> THEN list
    ELSE RemoveAll(RemoveFirst(list, Head(rem)), Tail(rem))

(***************************************************************************)
(* Execution engine: submission and positions (execution_engine.py).       *)
(***************************************************************************)
\* a submit_order that routes the order to the venue whatever the risk engine says
SubmitOrder_Mut(w, id) ==
    LET o == w.cache.orders[id]
        w0 == [w EXCEPT !.hist[id].reason = ValidateOrder(w, o)]
        w1 == HandleOrderEvent(w0, id, StatusEvent("OrderSubmitted", o.ts_init, 0))
    IN  IF Crashed(w1) THEN w1
        ELSE ProcessOrder([w1 EXCEPT !.cache.index = Append(@, id)], id)

\* submit_order after the OrderSubmitted event: the order is indexed and
\* routed to the venue
RouteOrder(w, id) ==
    IF Crashed(w) THEN w
    ELSE ProcessOrder([w EXCEPT !.cache.index = Append(@, id)], id)

\* submit_order once the risk engine has answered: the event is OrderDenied
\* on a denial and OrderSubmitted otherwise, and only the latter is routed
SubmitValidated(w, id, reason) ==
    LET o == w.cache.orders[id]
        w0 == [w EXCEPT !.hist[id].reason = reason]
    IN  IF reason # "" THEN HandleOrderEvent(w0, id, StatusEvent("OrderDenied", 0, 0))
        ELSE RouteOrder(
                 HandleOrderEvent(w0, id, StatusEvent("OrderSubmitted", o.ts_init, 0)),
                 id)

\* ExecutionEngine.submit_order for the order the factory has just built
SubmitOrder(w, id) ==
    SubmitValidated(w, id, ValidateOrder(w, w.cache.orders[id]))

\* a position event as the message bus receives it: its type, the topic
\* events.position.<strategy of the order>, the position and the filled order
PositionEvent(type, o, pid) ==
    [type |-> type,
     client_order_id |-> o.client_order_id,
     topic |-> o.strategy_id,
     position_id |-> pid]

\* a position id taken from the id of the latest event instead of the counter
NewPositionId_Mut(w) == 10 * w.drv.uuid + w.exec.position_counter + 1

\* the id of a new position: P-<counter>, the counter incremented first
NewPositionId(w) == w.exec.position_counter + 1

\* ExecutionEngine._open_position
OpenPosition(w, o, f) ==
    LET pid == NewPositionId(w)
    IN  [w EXCEPT !.exec.position_counter = @ + 1,
                  !.cache.positions =
                      Append(@, NewPosition(pid, o.instrument_id, o.strategy_id, f)),
                  !.drv.position_event = "PositionOpened",
                  !.exec.published =
                      Append(@, PositionEvent("PositionOpened", o, pid))]

\* open_positions[0]: position ids are in insertion order
FirstOf(ids) == CHOOSE i \in ids : \A j \in ids : i <= j

\* position.apply(event) has left position pid as p: PositionClosed if it
\* is closed and PositionChanged otherwise
UpdatePosition(w, o, pid, p) ==
    LET type == IF position_is_closed(p) THEN "PositionClosed"
                ELSE "PositionChanged"
    IN  [w EXCEPT !.cache.positions[pid] = p,
                  !.drv.position_event = type,
                  !.exec.published = Append(@, PositionEvent(type, o, pid))]

\* open_positions[0] takes the fill; a position is opened when there is none
ApplyToFirst(w, o, f, open_positions) ==
    IF open_positions = {} THEN OpenPosition(w, o, f)
    ELSE UpdatePosition(w, o, FirstOf(open_positions),
                        PositionApply(w.cache.positions[FirstOf(open_positions)], f))

\* the first open position of the instrument takes the fill
ApplyToOpenPosition(w, o, f) ==
    ApplyToFirst(w, o, f, PositionsOpen(w.cache, o.instrument_id))

\* a netting handler that opens a position for every fill
HandleFillNetting_Mut(w, o, f) == OpenPosition(w, o, f)

\* ExecutionEngine._handle_fill_netting
HandleFillNetting(w, o, f) == ApplyToOpenPosition(w, o, f)

\* a hedging handler that does not look at the position_id of the event
HandleFillHedging_Mut(w, o, f, position_id) == ApplyToOpenPosition(w, o, f)

\* ExecutionEngine._handle_fill_hedging: the cached position the event names
\* takes the fill; an event that names none (the exchange's fills carry no
\* position_id) or one the cache does not hold is handled as on a netting venue
HandleFillHedging(w, o, f, position_id) ==
    IF position_id # None /\ position_id[1] \in DOMAIN w.cache.positions
    THEN UpdatePosition(w, o, position_id[1],
                        PositionApply(w.cache.positions[position_id[1]], f))
    ELSE ApplyToOpenPosition(w, o, f)

\* _handle_fill, position management: the handler of the venue's OMS type
ManagePosition(w, id, f, position_id) ==
    IF Crashed(w) THEN w
    ELSE IF w.exch.oms_type = "NETTING"
    THEN HandleFillNetting(w, w.cache.orders[id], f)
    ELSE HandleFillHedging(w, w.cache.orders[id], f, position_id)

\* ExecutionEngine.process_event for an OrderFilled that carries position_id,
\* the handlers of the strategy returning at once
ProcessFilled(w, id, e, f, position_id) ==
    ManagePosition(HandleOrderEvent(w, id, e), id, f, position_id)

\* ExecutionEngine._handle_fill after on_order_filled has returned: the
\* position is updated and its event published to the strategy
HandleFillPosition(w) ==
    [ManagePosition(w, w.drv.fill_id, w.drv.fill[1], None)
        EXCEPT !.drv.pc = "position_event"]

(***************************************************************************)
(* Clock (clock.py): one timer at most.                                    *)
(***************************************************************************)
\* Clock.set_timer at time now, without start or stop time
Timer(interval_ns, now) ==
    [interval_ns |-> interval_ns, start_time_ns |-> now,
     next_time_ns |-> now + interval_ns, stop_time_ns |-> None]

\* TestClock.advance_time for one timer: the timer afterwards and the
\* ts_event of the events it has produced
RECURSIVE AdvanceTimer(_, _, _)
AdvanceTimer(timer, to_time_ns, events) ==
    IF timer.next_time_ns > to_time_ns THEN [events |-> events, timer |-> Some(timer)]
    ELSE IF timer.stop_time_ns # None /\ timer.next_time_ns > timer.stop_time_ns[1]
    THEN [events |-> events, timer |-> None]
    ELSE AdvanceTimer([timer EXCEPT !.next_time_ns = @ + timer.interval_ns],
                      to_time_ns, Append(events, timer.next_time_ns))

(***************************************************************************)
(* Backtest driver (backtest/engine.py).                                   *)
(***************************************************************************)
\* a driver that publishes the bar to the strategies before it matches it
BarSteps_Mut == <<"set_time", "timers", "publish", "match", "record">>

\* BacktestEngine.run, the body of the loop for a bar datum
BarSteps == <<"set_time", "timers", "match", "publish", "record">>

StepAfter(step) ==
    LET i == CHOOSE k \in DOMAIN BarSteps : BarSteps[k] = step
    IN  IF i < Len(BarSteps) THEN BarSteps[i + 1] ELSE "next_datum"

\* control reaches a step of the loop body
Enter(w, step) ==
    IF step = "next_datum" THEN [w EXCEPT !.drv.pc = step]
    ELSE [w EXCEPT !.drv.pc = step, !.drv.steps = Append(@, step)]

\* BacktestEngine._get_total_balance
GetTotalBalance(w) ==
    LET bal == BalanceTotal(w.exch.account)
    IN  IF bal # None THEN bal[1] ELSE 0

\* the engines once venue, instrument, data and strategy have been added and
\* run() has called on_start
EngineAtStart(n_data, interval_ns, oms_type, instrument, registered, starting, cprec) ==
    [drv |-> [pc |-> "on_start",
              data |-> << >>,
              fill_id |-> 0,
              fill |-> None,
              idx |-> 0,
              orders_to_remove |-> << >>,
              uuid |-> 0,
              position_event |-> "",
              timer |-> IF interval_ns = 0 THEN None ELSE Some(Timer(interval_ns, 0)),
              steps |-> << >>,
              n_data |-> n_data,
              clock |-> 0,
              due |-> << >>,
              starting_balance |-> 0,
              balance_curve |-> << >>],
     exch |-> [instruments |-> IF registered THEN {1} ELSE {},
               open_orders |-> << >>,
               venue_order_counter |-> 0,
               account |-> NewAccount(starting, cprec),
               trade_counter |-> 0,
               currency_precision |-> cprec,
               oms_type |-> oms_type],
     exec |-> [trading_state |-> "ACTIVE",
               published |-> << >>,
               position_counter |-> 0],
     cache |-> [positions |-> << >>,
                instruments |-> << instrument >>,
                orders |-> << >>,
                index |-> << >>,
                bars |-> << >>],
     hist |-> << >>]

\* the strategy builds an order with its factory and submits it
StrategySubmit(w, type, side, instr, qty, qprec, price, pprec, trigger) ==
    LET id == Len(w.cache.orders) + 1
        o == NewOrder(id, 1, instr, type, side, qty, qprec,
                      IF type \in {"LIMIT", "STOP_LIMIT"} THEN Some(price) ELSE None,
                      pprec,
                      IF type \in {"STOP_MARKET", "STOP_LIMIT"} THEN Some(trigger)
                      ELSE None,
                      0, w.drv.clock)
        w1 == [w EXCEPT !.cache.orders = Append(@, o),
                        !.hist = Append(@, [published |-> << >>,
                                            accepted |-> FALSE,
                                            fills |-> << >>,
                                            bar |-> BarNo(w),
                                            evals |-> << >>,
                                            reason |-> "",
                                            window |-> w.drv.pc])]
    IN  SubmitOrder(w1, id)

\* run(): on_start has returned; the starting balance is recorded
DoOnStartReturn(w) ==
    LET starting_balance == GetTotalBalance(w)
    IN  [w EXCEPT !.drv.pc = "next_datum",
                  !.drv.starting_balance = starting_balance,
                  !.drv.balance_curve =
                      IF w.drv.n_data > 0
                      THEN << [ts |-> 1, balance |-> starting_balance] >>
                      ELSE << >>]

\* run(): the loop takes the next bar of the data
DoNextDatum(w, b) ==
    Enter([w EXCEPT !.drv.data = Append(@, b), !.drv.steps = << >>], BarSteps[1])

\* clock.set_time(datum.ts_event)
DoSetTime(w) ==
    Enter([w EXCEPT !.drv.clock = CurrentBar(w).ts_event], StepAfter("set_time"))

\* clock.advance_time(datum.ts_event); the callbacks of its events are due
DoAdvanceTime(w) ==
    LET to_time_ns == CurrentBar(w).ts_event
        r == IF w.drv.timer = None THEN [events |-> << >>, timer |-> None]
             ELSE AdvanceTimer(w.drv.timer[1], to_time_ns, << >>)
        w1 == [w EXCEPT !.drv.timer = r.timer, !.drv.clock = to_time_ns,
                        !.drv.due = r.events]
    IN  IF r.events = << >> THEN Enter(w1, StepAfter("timers"))
        ELSE [w1 EXCEPT !.drv.pc = "timer_cb"]

\* te.callback(te) has returned
DoTimerCallbackReturn(w) ==
    LET w1 == [w EXCEPT !.drv.due = Tail(@)]
    IN  IF w1.drv.due = << >> THEN Enter(w1, StepAfter("timers")) ELSE w1

\* process_bar once its first loop is exhausted
ProcessBarEnd(w) ==
    Enter([w EXCEPT !.exch.open_orders = RemoveAll(@, w.drv.orders_to_remove),
                    !.drv.idx = 0,
                    !.drv.orders_to_remove = << >>],
          StepAfter("match"))

\* _fill_order has returned to process_bar
DoPositionEventReturn(w) ==
    [w EXCEPT !.drv.pc = "match",
              !.drv.orders_to_remove = Append(@, w.drv.fill_id),
              !.drv.fill_id = 0,
              !.drv.fill = None,
              !.drv.position_event = ""]

\* DataEngine.process_bar: cache the bar, publish it to the strategy
DoPublishBar(w) ==
    [w EXCEPT !.cache.bars = Append(@, CurrentBar(w)), !.drv.pc = "on_bar"]

\* a driver that records the balance the run started with after every bar
DoRecordBalance_Mut(w) ==
    Enter([w EXCEPT !.drv.balance_curve =
               Append(@, [ts |-> CurrentBar(w).ts_event,
                          balance |-> w.drv.starting_balance])],
          StepAfter("record"))

\* balance_curve.append((datum.ts_event, self._get_total_balance()))
DoRecordBalance(w) ==
    Enter([w EXCEPT !.drv.balance_curve =
               Append(@, [ts |-> CurrentBar(w).ts_event,
                          balance |-> GetTotalBalance(w)])],
          StepAfter("record"))

(***************************************************************************)
(* SpecPos: one position, any sequence of fills applied to it.             *)
(***************************************************************************)
IdlePos ==
    /\ pos = [side |-> "FLAT"]
    /\ posLast = [n |-> 0]

IdleOrd ==
    /\ ord = [status |-> "INITIALIZED"]
    /\ ordLast = [n |-> 0]

IdleChk == chk = [called |-> FALSE]

IdleEng ==
    /\ drv = [pc |-> "idle"]
    /\ exch = [open_orders |-> << >>]
    /\ exec = [position_counter |-> 0]
    /\ cache = [orders |-> << >>]
    /\ hist = << >>

InitPos ==
    /\ \E side \in OrderSides, prec \in PrecSet, px \in PxSet :
         \E qty \in QtyOfPrec(prec) :
           pos = NewPosition(1, 1, 1, Fill(side, qty, prec, px, 0))
    /\ posLast = [n |-> 1, fill |-> pos.events[1]]
    /\ IdleOrd
    /\ IdleChk
    /\ IdleEng

\* a later fill: only the value of its quantity is read
PosApplyFill ==
    \E side \in OrderSides, qty \in QtySet, px \in PxSet :
        /\ posLast.n < MaxFills
        /\ LET f == Fill(side, qty, 1, px, 0)
           IN  /\ pos' = PositionApply(pos, f)
               /\ posLast' = [n |-> posLast.n + 1, fill |-> f]
        /\ UNCHANGED <<varsOrd, varsChk, varsEng>>

NextPos == PosApplyFill

SpecPos == InitPos /\ [][NextPos]_vars

(***************************************************************************)
(* SpecOrder: one order, any sequence of events applied to it.             *)
(***************************************************************************)
StatusEventTypes ==
    {"OrderInitialized", "OrderDenied", "OrderSubmitted", "OrderAccepted",
     "OrderRejected", "OrderCanceled", "OrderExpired"}

NoCall == [n |-> 0, err |-> "none", evt |-> StatusEvent("OrderInitialized", 0, 0)]

\* the events an order has been through before the calls under test: none
\* (just constructed), or submitted and accepted by the venue
Lifecycles ==
    {<< >>,
     << StatusEvent("OrderSubmitted", 0, 0), StatusEvent("OrderAccepted", 0, 1) >>}

RECURSIVE ApplyAll(_, _)
ApplyAll(o, es) ==
    IF es = << >> THEN o ELSE ApplyAll(Apply(o, Head(es)).o, Tail(es))

InitOrderEntity ==
    \E type \in OrderTypes, prec \in PrecSet, es \in Lifecycles :
      \E qty \in QtyOfPrec(prec) :
        ord = ApplyAll(
                NewOrder(1, 1, 1, type, "BUY", qty, prec,
                         IF type \in {"LIMIT", "STOP_LIMIT"} THEN Some(10) ELSE None,
                         1,
                         IF type \in {"STOP_MARKET", "STOP_LIMIT"} THEN Some(10) ELSE None,
                         0, 0),
                es)

InitOrder ==
    /\ InitOrderEntity
    /\ ordLast = NoCall
    /\ IdlePos
    /\ IdleChk
    /\ IdleEng

Call(e) ==
    /\ ordLast.n < MaxApply
    /\ LET r == Apply(ord, e)
       IN  /\ ord' = r.o
           /\ ordLast' = [n |-> ordLast.n + 1, err |-> r.err, evt |-> e]
           /\ UNCHANGED <<varsPos, varsChk, varsEng>>

OrdApplyStatus ==
    \E type \in StatusEventTypes, ts \in TsSet, void \in {0, 1} :
        /\ void = 1 => type = "OrderAccepted"
        /\ Call(StatusEvent(type, ts, void))

OrdApplyFilled ==
    \E void \in {0, 2}, q \in QtySet, px \in PxSet :
        Call(FilledEvent(1, void, q, px))

OrdApplyUpdated ==
    \E prec \in PrecSet, px \in {None, Some(15)} :
      \E quantity \in {None} \cup {Some(q) : q \in QtyOfPrec(prec)} :
        Call(UpdatedEvent(1, quantity, prec, px, px))

NextOrder == OrdApplyStatus \/ OrdApplyFilled \/ OrdApplyUpdated

SpecOrder == InitOrder /\ [][NextOrder]_vars

(***************************************************************************)
(* SpecMatch: one resting order, one bar, one call of _check_fill.         *)
(***************************************************************************)
\* bar and trigger prices: the multiples of 0.5 up to (MaxPxSteps + 1) * 0.5
BarPxSet == {5 * k : k \in 1..(MaxPxSteps + 1)}

\* the prices that have precision prec
PxOfPrec(prec) == {p \in BarPxSet : PriceValue(p, prec) = p}

\* an order that has been submitted and accepted by the venue
Accepted(o) ==
    ApplyAll(o, << StatusEvent("OrderSubmitted", 0, 0),
                   StatusEvent("OrderAccepted", 0, 1) >>)

\* The limit price has the precision of the instrument (the risk engine
\* denies the order otherwise); trigger and bar prices are not validated.
InitMatch ==
    /\ \E type \in OrderTypes, side \in OrderSides, iprec \in PrecSet,
          oprec \in PrecSet, registered \in BOOLEAN :
         \E limit \in PxOfPrec(iprec), trigger \in BarPxSet,
            open \in PxOfPrec(oprec), high \in BarPxSet, low \in BarPxSet :
           /\ low <= open
           /\ open <= high
           /\ chk = [exch |-> [instruments |-> IF registered THEN {1} ELSE {}],
                     cache |-> [instruments |->
                                   << Instrument(iprec, 0, 0, None, None) >>],
                     fill_px |-> None,
                     bar |-> Bar(1, open, high, low, oprec, 1),
                     called |-> FALSE,
                     order |->
                        Accepted(NewOrder(1, 1, 1, type, side, 10, 0,
                            IF type \in {"LIMIT", "STOP_LIMIT"} THEN Some(limit)
                            ELSE None,
                            iprec,
                            IF type \in {"STOP_MARKET", "STOP_LIMIT"}
                            THEN Some(trigger) ELSE None,
                            0, 0))]
    /\ IdleOrd
    /\ IdlePos
    /\ IdleEng

CheckFillCall ==
    /\ ~chk.called
    /\ chk' = [chk EXCEPT
                 !.called = TRUE,
                 !.fill_px = CheckFill(chk.order, chk.bar,
                                       PricePrecision(chk, chk.order, chk.bar))]
    /\ UNCHANGED <<varsOrd, varsPos, varsEng>>

NextMatch == CheckFillCall

SpecMatch == InitMatch /\ [][NextMatch]_vars

(***************************************************************************)
(* The steps of a backtest run, shared by SpecFill and Spec.               *)
(***************************************************************************)
\* the callbacks in which the modelled strategy submits and cancels orders
InWindow ==
    drv.pc \in {"on_start", "timer_cb", "order_event", "position_event", "on_bar"}

OnStartReturn ==
    /\ drv.pc = "on_start"
    /\ Becomes(DoOnStartReturn(World))
    /\ UNCHANGED <<varsOrd, varsPos, varsChk>>

\* the bars a datum is drawn from: instrument 1 with any open/high/low, or a
\* bar of another instrument of the venue
Bars(ts) ==
    {Bar(1, t[1], t[2], t[3], 1, ts) :
        t \in {x \in PxSet \X PxSet \X PxSet : x[3] <= x[1] /\ x[1] <= x[2]}}
    \cup {Bar(2, 10, 10, 10, 1, ts)}

NextDatum ==
    /\ drv.pc = "next_datum"
    /\ Len(drv.data) < drv.n_data
    /\ \E b \in Bars(Len(drv.data) + 1) : Becomes(DoNextDatum(World, b))
    /\ UNCHANGED <<varsOrd, varsPos, varsChk>>

\* the data is exhausted: on_stop, then the result is built
Finish ==
    /\ drv.pc = "next_datum"
    /\ Len(drv.data) = drv.n_data
    /\ Becomes([World EXCEPT !.drv.pc = "done"])
    /\ UNCHANGED <<varsOrd, varsPos, varsChk>>

SetTime ==
    /\ drv.pc = "set_time"
    /\ Becomes(DoSetTime(World))
    /\ UNCHANGED <<varsOrd, varsPos, varsChk>>

AdvanceTime ==
    /\ drv.pc = "timers"
    /\ Becomes(DoAdvanceTime(World))
    /\ UNCHANGED <<varsOrd, varsPos, varsChk>>

TimerCallbackReturn ==
    /\ drv.pc = "timer_cb"
    /\ Becomes(DoTimerCallbackReturn(World))
    /\ UNCHANGED <<varsOrd, varsPos, varsChk>>

MatchStep ==
    /\ drv.pc = "match"
    /\ drv.idx < Len(exch.open_orders)
    /\ Becomes(ProcessBarStep(World))
    /\ UNCHANGED <<varsOrd, varsPos, varsChk>>

MatchEnd ==
    /\ drv.pc = "match"
    /\ drv.idx >= Len(exch.open_orders)
    /\ Becomes(ProcessBarEnd(World))
    /\ UNCHANGED <<varsOrd, varsPos, varsChk>>

\* on_order_filled has returned
OrderEventReturn ==
    /\ drv.pc = "order_event"
    /\ Becomes(HandleFillPosition(World))
    /\ UNCHANGED <<varsOrd, varsPos, varsChk>>

\* the position event handler has returned
PositionEventReturn ==
    /\ drv.pc = "position_event"
    /\ Becomes(DoPositionEventReturn(World))
    /\ UNCHANGED <<varsOrd, varsPos, varsChk>>

PublishBar ==
    /\ drv.pc = "publish"
    /\ Becomes(DoPublishBar(World))
    /\ UNCHANGED <<varsOrd, varsPos, varsChk>>

OnBarReturn ==
    /\ drv.pc = "on_bar"
    /\ Becomes(Enter(World, StepAfter("publish")))
    /\ UNCHANGED <<varsOrd, varsPos, varsChk>>

RecordBalance ==
    /\ drv.pc = "record"
    /\ Becomes(DoRecordBalance(World))
    /\ UNCHANGED <<varsOrd, varsPos, varsChk>>

\* what the strategy submits: an order of quantity 1 for instrument 1, of any
\* type and side, its limit and trigger at the highest bar price; or a market
\* order for an instrument the cache does not know
Submissions ==
    {<<type, side, 1>> : type \in OrderTypes, side \in OrderSides}
    \cup {<<"MARKET", "BUY", 2>>}

StrategySubmitOrder ==
    \E s \in Submissions :
        /\ InWindow
        /\ Len(cache.orders) < MaxOrders
        /\ Becomes(StrategySubmit(World, s[1], s[2], s[3], 10, 0,
                                  5 * MaxPxSteps, 1, 5 * MaxPxSteps))
        /\ UNCHANGED <<varsOrd, varsPos, varsChk>>

\* The strategy cancels an order; the exchange ignores the command unless
\* the order is among its resting orders.
StrategyCancelOrder ==
    \E id \in DOMAIN cache.orders :
        /\ InWindow
        /\ InSeq(exch.open_orders, id)
        /\ Becomes(CancelOrder(World, id))
        /\ UNCHANGED <<varsOrd, varsPos, varsChk>>

(***************************************************************************)
(* SpecFill: the first bar meets one resting market order; quantity,       *)
(* price, fee, currency precision and starting balance vary.               *)
(***************************************************************************)
\* taker fees, in tenths
FeeSet == {0, 1, 3}

InitFill ==
    /\ \E side \in OrderSides, registered \in BOOLEAN, cprec \in {2, 3},
          fee \in FeeSet, starting \in {None, Some(100000)},
          open \in PxSet, qty \in QtySet, oms_type \in {"NETTING", "HEDGING"} :
         Is(DoAdvanceTime(DoSetTime(DoNextDatum(
                DoOnStartReturn(
                    StrategySubmit(
                        EngineAtStart(1, 0, oms_type,
                                      Instrument(1, 1, fee, None, None),
                                      registered, starting, cprec),
                        "MARKET", side, 1, qty, 1, open, 1, open)),
                Bar(1, open, open, open, 1, 1)))))
    /\ IdleOrd
    /\ IdlePos
    /\ IdleChk

NextFill == MatchStep \/ OrderEventReturn \/ PositionEventReturn \/ MatchEnd

SpecFill == InitFill /\ [][NextFill]_vars

(***************************************************************************)
(* Spec: a backtest run of one strategy on one venue.                      *)
(***************************************************************************)
\* the interval of the strategy's timer in bar periods; 0: it sets no timer
TimerIntervals == {0, 2}

Init ==
    /\ \E n_data \in {0, MaxBars}, interval_ns \in TimerIntervals :
         Is(EngineAtStart(n_data, interval_ns, "NETTING",
                          Instrument(1, 0, 1, None, None), TRUE,
                          Some(100000), 2))
    /\ IdleOrd
    /\ IdlePos
    /\ IdleChk

Next ==
    \/ StrategySubmitOrder
    \/ StrategyCancelOrder
    \/ OnStartReturn
    \/ NextDatum
    \/ SetTime
    \/ AdvanceTime
    \/ TimerCallbackReturn
    \/ MatchStep
    \/ OrderEventReturn
    \/ PositionEventReturn
    \/ MatchEnd
    \/ PublishBar
    \/ OnBarReturn
    \/ RecordBalance
    \/ Finish

Spec == Init /\ [][Next]_vars

(***************************************************************************)
(* SpecNet: a run on a venue with two instruments in which the strategy    *)
(* trades market orders of one or two units from its callbacks.            *)
(***************************************************************************)
OmsTypes == {"NETTING", "HEDGING"}

\* add_instrument for a second instrument of the venue
AddSecondInstrument(w, instrument) ==
    [w EXCEPT !.cache.instruments = Append(@, instrument),
              !.exch.instruments = @ \cup {2}]

InitNet ==
    /\ \E oms_type \in OmsTypes :
         Is(AddSecondInstrument(
                EngineAtStart(MaxBars, 0, oms_type,
                              Instrument(1, 0, 1, None, None), TRUE,
                              Some(100000), 2),
                Instrument(1, 0, 1, None, None)))
    /\ IdleOrd
    /\ IdlePos
    /\ IdleChk

\* the strategy submits a market order for one of the two instruments
NetSubmitOrder ==
    \E side \in OrderSides, instr \in {1, 2}, qty \in {10, 20} :
        /\ InWindow
        /\ Len(cache.orders) < MaxNetOrders
        /\ Becomes(StrategySubmit(World, "MARKET", side, instr, qty, 0,
                                  5 * MaxPxSteps, 1, 5 * MaxPxSteps))
        /\ UNCHANGED <<varsOrd, varsPos, varsChk>>

\* the next bar: one bar shape for each instrument
NetNextDatum ==
    /\ drv.pc = "next_datum"
    /\ Len(drv.data) < drv.n_data
    /\ \E instr \in {1, 2} :
         Becomes(DoNextDatum(World, Bar(instr, 10, 10, 10, 1, Len(drv.data) + 1)))
    /\ UNCHANGED <<varsOrd, varsPos, varsChk>>

NextNet ==
    \/ NetSubmitOrder
    \/ OnStartReturn
    \/ NetNextDatum
    \/ SetTime
    \/ AdvanceTime
    \/ MatchStep
    \/ OrderEventReturn
    \/ PositionEventReturn
    \/ MatchEnd
    \/ PublishBar
    \/ OnBarReturn
    \/ RecordBalance
    \/ Finish

SpecNet == InitNet /\ [][NextNet]_vars

(***************************************************************************)
(* Claims about the order entity (checked under SpecOrder).                *)
(***************************************************************************)
\* the transition table as the specification tabulates it
TableAllowed(s) ==
    CASE s = "INITIALIZED" -> {"DENIED", "SUBMITTED"}
      [] s = "SUBMITTED" -> {"ACCEPTED", "REJECTED", "CANCELED"}
      [] s = "ACCEPTED" ->
            {"CANCELED", "EXPIRED", "TRIGGERED", "PENDING_UPDATE",
             "PENDING_CANCEL", "PARTIALLY_FILLED", "FILLED"}
      [] s \in {"TRIGGERED", "PARTIALLY_FILLED"} ->
            {"CANCELED", "EXPIRED", "PENDING_UPDATE", "PENDING_CANCEL",
             "PARTIALLY_FILLED", "FILLED"}
      [] s = "PENDING_UPDATE" ->
            {"ACCEPTED", "CANCELED", "EXPIRED", "TRIGGERED",
             "PARTIALLY_FILLED", "FILLED"}
      [] s = "PENDING_CANCEL" ->
            {"CANCELED", "ACCEPTED", "PARTIALLY_FILLED", "FILLED"}
      [] s \in {"DENIED", "REJECTED", "CANCELED", "EXPIRED", "FILLED"} -> {}

\* what is left of order o once event e is taken into account
LeftAfter(o, e) ==
    CASE e.type = "OrderFilled" ->
            QuantityValue(o.quantity - (o.filled_qty + e.last_qty), o.qprec)
      [] e.type = "OrderUpdated" /\ e.quantity # None ->
            QuantityValue(e.quantity[1] - o.filled_qty, e.qprec)
      [] OTHER -> o.leaves_qty

\* target(e): the status event e asks for
TargetOf(o, e) ==
    CASE e.type = "OrderFilled" ->
            IF LeftAfter(o, e) = 0 THEN "FILLED" ELSE "PARTIALLY_FILLED"
      [] e.type = "OrderUpdated" -> "ACCEPTED"
      [] e.type = "OrderInitialized" -> "INITIALIZED"
      [] e.type = "OrderDenied" -> "DENIED"
      [] e.type = "OrderSubmitted" -> "SUBMITTED"
      [] e.type = "OrderAccepted" -> "ACCEPTED"
      [] e.type = "OrderRejected" -> "REJECTED"
      [] e.type = "OrderCanceled" -> "CANCELED"
      [] e.type = "OrderExpired" -> "EXPIRED"

\* an Order.apply call has just been made
Called == ordLast'.n = ordLast.n + 1

Succeeded == ordLast'.err = "none" /\ ord'.status = TargetOf(ord, ordLast'.evt)

C3_FailedApplyLeavesOrderUnchanged ==
    [][Called /\ ordLast'.err = "RuntimeError" => ord' = ord]_vars

\* C4: filled_qty + leaves_qty = quantity between any two apply calls.
C4_FilledPlusLeavesIsQuantity ==
    ord.filled_qty + ord.leaves_qty = ord.quantity

(***************************************************************************)
(* Claims about the position entity (checked under SpecPos).               *)
(***************************************************************************)
SideMatchesSign ==
    /\ pos.side = "LONG" <=> pos.signed_qty > 0
    /\ pos.side = "SHORT" <=> pos.signed_qty < 0
    /\ pos.side = "FLAT" <=> pos.signed_qty = 0
    /\ position_is_closed(pos) <=> pos.side = "FLAT"

\* C9 as stated: side is the sign of signed_qty, quantity = |signed_qty|, and
\* the position is closed iff it is FLAT.
C9_SideAndQuantityFollowSignedQty ==
    /\ SideMatchesSign
    /\ pos.quantity = Abs(pos.signed_qty)

\* C9 amended: side is the sign of signed_qty, the position is closed iff it
\* is FLAT, and quantity is |signed_qty| rounded half-up to the quantity
\* precision of the fill that opened the position (so quantity = |signed_qty|
\* whenever |signed_qty| has that precision).
C9_QuantityIsRoundedAbsSignedQty ==
    /\ SideMatchesSign
    /\ pos.quantity = Quantize(Abs(pos.signed_qty), UnitOf(pos.events[1].qprec))
    /\ Abs(pos.signed_qty) \in QtyOfPrec(pos.events[1].qprec)
         => pos.quantity = Abs(pos.signed_qty)

\* a long position has been flipped to SHORT by a larger sell
C9_Witness ==
    /\ Len(pos.events) = 2
    /\ pos.events[1].order_side = "BUY"
    /\ pos.side = "SHORT"
    /\ pos.quantity = Abs(pos.signed_qty)

\* a fill has just been applied to the position
Filled == posLast'.n = posLast.n + 1

Opposite(p, f) ==
    \/ p.side = "LONG" /\ f.order_side = "SELL"
    \/ p.side = "SHORT" /\ f.order_side = "BUY"

ClosedPnl(p, f) ==
    LET close_qty == Min(f.last_qty, Abs(p.signed_qty))
    IN  IF p.side = "LONG"
        THEN RMul(RInt(close_qty), RSub(RInt(f.last_px), p.avg_px_open))
        ELSE RMul(RInt(close_qty), RSub(p.avg_px_open, RInt(f.last_px)))

\* open Q at P1, then the opposite fill of Q at P2
RoundTrip(p) ==
    /\ Len(p.events) = 2
    /\ p.events[1].order_side # p.events[2].order_side
    /\ p.events[1].last_qty = p.events[2].last_qty

RoundTripPnl(p) ==
    LET q == p.events[1].last_qty
        p1 == p.events[1].last_px
        p2 == p.events[2].last_px
    IN  IF p.events[1].order_side = "BUY" THEN RInt(q * (p2 - p1))
        ELSE RInt(q * (p1 - p2))

\* C10: a fill on the opposite side adds close_qty * (last_px - avg_px_open)
\* (LONG) or close_qty * (avg_px_open - last_px) (SHORT) to realized_pnl, with
\* close_qty = min(last_qty, |signed_qty|), and leaves avg_px_open alone unless
\* it flips the position; a round trip of Q ends FLAT with realized_pnl
\* Q * (P2 - P1) long, Q * (P1 - P2) short.
C10_RealizedPnlOfClosingFill ==
    [][Filled =>
        /\ Opposite(pos, posLast'.fill) =>
             /\ pos'.realized_pnl = RAdd(pos.realized_pnl, ClosedPnl(pos, posLast'.fill))
             /\ posLast'.fill.last_qty <= Abs(pos.signed_qty)
                  => pos'.avg_px_open = pos.avg_px_open
        /\ RoundTrip(pos') =>
             /\ pos'.side = "FLAT"
             /\ pos'.realized_pnl = RoundTripPnl(pos')]_vars

\* a long round trip closed at a higher price
C10_Witness ==
    /\ RoundTrip(pos)
    /\ pos.events[1].order_side = "BUY"
    /\ pos.events[1].last_qty > 0
    /\ pos.events[2].last_px > pos.events[1].last_px
    /\ pos.realized_pnl = RoundTripPnl(pos)


(***************************************************************************)
(* Claims about the matching rules (checked under SpecMatch).              *)
(***************************************************************************)
\* the fill predicate of the matching table
TablePredicate(o, b) ==
    CASE o.order_type = "MARKET" -> TRUE
      [] o.order_type = "LIMIT" /\ o.side = "BUY" -> b.low <= o.price[1]
      [] o.order_type = "LIMIT" /\ o.side = "SELL" -> b.high >= o.price[1]
      [] o.order_type = "STOP_MARKET" /\ o.side = "BUY" ->
            b.high >= o.trigger_price[1]
      [] o.order_type = "STOP_MARKET" /\ o.side = "SELL" ->
            b.low <= o.trigger_price[1]
      [] o.order_type = "STOP_LIMIT" /\ o.side = "BUY" ->
            b.high >= o.trigger_price[1] /\ b.low <= o.price[1]
      [] o.order_type = "STOP_LIMIT" /\ o.side = "SELL" ->
            b.low <= o.trigger_price[1] /\ b.high >= o.price[1]

\* the fill price of the matching table
TablePrice(o, b) ==
    CASE o.order_type = "MARKET" -> b.open
      [] o.order_type = "LIMIT" /\ o.side = "BUY" -> Min(o.price[1], b.open)
      [] o.order_type = "LIMIT" /\ o.side = "SELL" -> Max(o.price[1], b.open)
      [] o.order_type = "STOP_MARKET" /\ o.side = "BUY" ->
            Max(o.trigger_price[1], b.open)
      [] o.order_type = "STOP_MARKET" /\ o.side = "SELL" ->
            Min(o.trigger_price[1], b.open)
      [] o.order_type = "STOP_LIMIT" /\ o.side = "BUY" ->
            Min(o.price[1], Max(o.trigger_price[1], b.open))
      [] o.order_type = "STOP_LIMIT" /\ o.side = "SELL" ->
            Max(o.price[1], Min(o.trigger_price[1], b.open))

\* the precision the exchange gives a fill price: that of the instrument it
\* has registered, else that of the bar's open price
ExchangePrecision ==
    IF chk.exch.instruments # {} THEN chk.cache.instruments[1].price_precision
    ELSE chk.bar.open_prec

\* C5 as stated: for every order type, side and bar the matching engine
\* fills if and only if the table's predicate holds, at the table's price.
C5_FillIffPredicateAtTablePrice ==
    chk.called =>
        /\ chk.fill_px # None <=> TablePredicate(chk.order, chk.bar)
        /\ chk.fill_px # None => chk.fill_px[1] = TablePrice(chk.order, chk.bar)

\* C5 amended: the engine fills if and only if the table's predicate holds;
\* a MARKET order fills at O, any other order at the table's price rounded
\* half-up to the exchange's price precision (the instrument's
\* price_precision, or the precision of the bar's open when the exchange has
\* not registered the instrument), hence at the table's price whenever that
\* price has this precision.  A BUY stop with a gap open O > trigger fills at
\* O rounded so.
C5_FillIffPredicateAtRoundedTablePrice ==
    chk.called =>
        LET o == chk.order
            b == chk.bar
            table_px == TablePrice(o, b)
        IN  /\ chk.fill_px # None <=> TablePredicate(o, b)
            /\ chk.fill_px # None =>
                 /\ o.order_type = "MARKET" => chk.fill_px[1] = b.open
                 /\ o.order_type # "MARKET" =>
                      chk.fill_px[1] = Quantize(table_px, UnitOf(ExchangePrecision))
                 /\ table_px \in PxOfPrec(ExchangePrecision) =>
                      chk.fill_px[1] = table_px
            /\ (/\ o.order_type = "STOP_MARKET"
                /\ o.side = "BUY"
                /\ b.open > o.trigger_price[1])
                 => chk.fill_px = Some(Quantize(b.open, UnitOf(ExchangePrecision)))

\* a BUY stop has been filled at the open of a bar that gapped over its trigger
C5_Witness ==
    /\ chk.called
    /\ chk.order.order_type = "STOP_MARKET"
    /\ chk.order.side = "BUY"
    /\ chk.bar.open > chk.order.trigger_price[1]
    /\ chk.fill_px = Some(chk.bar.open)

(***************************************************************************)
(* Claims about a fill's bookkeeping (checked under SpecFill).             *)
(***************************************************************************)
\* every fill the exchange has made: the order and its record
AllFills ==
    {<<id, k>> \in (DOMAIN hist) \X (1..1) : k \in DOMAIN hist[id].fills}

\* q * p, in thousandths
FillNotional(f) == f.last_qty * f.last_px * 10

\* the free balance a fill of side `side` should leave, unrounded
PostedBalance(f, side, c) ==
    IF side = "BUY" THEN f.balance_before[1] - (FillNotional(f) + c)
    ELSE f.balance_before[1] + (FillNotional(f) - c)

\* C8 as stated: for every fill of q at p on an instrument with taker fee f
\* (one the exchange has registered, on an account that holds a base-currency
\* balance), the commission is c = q*p*f; the free balance after the fill is
\* the balance before minus (q*p + c) for a BUY, plus (q*p - c) for a SELL;
\* the accumulated commission grows by exactly c.
C8_BalanceAndCommissionExact ==
    \A x \in AllFills :
        LET o == cache.orders[x[1]]
            f == hist[x[1]].fills[x[2]]
            c == f.last_qty * f.last_px * cache.instruments[o.instrument_id].taker_fee
        IN  (o.instrument_id \in exch.instruments /\ f.balance_before # None) =>
                /\ f.commission = c
                /\ f.balance_after = Some(PostedBalance(f, o.side, c))
                /\ f.commissions_after = f.commissions_before + c

\* C8 amended: with f the instrument's taker fee when the exchange has
\* registered the instrument and 0 otherwise, and c = q*p*f: the OrderFilled
\* event carries c rounded half-up to the base currency's precision; when the
\* account holds a base-currency balance, the free balance after the fill is
\* the balance before minus (q*p + c) for a BUY, plus (q*p - c) for a SELL,
\* rounded half-up to that precision, and when it holds none it still holds
\* none; the accumulated commission grows by exactly c, unrounded.
C8_BalanceAndCommissionRounded ==
    \A x \in AllFills :
        LET o == cache.orders[x[1]]
            f == hist[x[1]].fills[x[2]]
            fee == IF o.instrument_id \in exch.instruments
                   THEN cache.instruments[o.instrument_id].taker_fee ELSE 0
            c == f.last_qty * f.last_px * fee
            unit == IF exch.currency_precision = 2 THEN 10 ELSE 1
        IN  /\ f.commission = Quantize(c, unit)
            /\ f.balance_before = None => f.balance_after = None
            /\ f.balance_before # None =>
                 f.balance_after = Some(Quantize(PostedBalance(f, o.side, c), unit))
            /\ f.commissions_after = f.commissions_before + c

\* a BUY has been filled whose cost is not a whole number of cents
C8_Witness ==
    \E x \in AllFills :
        LET o == cache.orders[x[1]]
            f == hist[x[1]].fills[x[2]]
        IN  /\ o.side = "BUY"
            /\ exch.currency_precision = 2
            /\ f.rate > 0
            /\ f.balance_before # None
            /\ f.balance_after # Some(PostedBalance(f, "BUY", f.last_qty * f.last_px * f.rate))
            /\ f.commissions_after = f.commissions_before + f.last_qty * f.last_px * f.rate

(***************************************************************************)
(* Claims about a backtest run (checked under Spec).                       *)
(***************************************************************************)
\* the first bar of instrument instr after bar n of the data; 0: none so far
NextBarOf(instr, n) ==
    LET later == {m \in (n + 1)..Len(drv.data) : drv.data[m].instrument_id = instr}
    IN  IF later = {} THEN 0 ELSE CHOOSE m \in later : \A k \in later : m <= k

\* process_bar has returned for bar m of the data
Matched(m) ==
    \/ m < Len(drv.data)
    \/ /\ m = Len(drv.data)
       /\ drv.pc \in {"publish", "on_bar", "record", "next_datum", "done"}

\* C1: a market order accepted while bar N of its instrument is processed,
\* from on_bar or from an order or position event callback of that bar's
\* matching, gets no fill during bar N and is filled exactly once, on the next
\* bar of its instrument, at that bar's open.
C1_MarketOrderFillsOnNextBarOnly ==
    \A id \in DOMAIN cache.orders :
        LET o == cache.orders[id]
            h == hist[id]
            next == NextBarOf(o.instrument_id, h.bar)
        IN  (/\ o.order_type = "MARKET"
             /\ h.accepted
             /\ h.window \in {"on_bar", "order_event", "position_event"})
            => /\ Len(h.fills) <= 1
               /\ \A k \in DOMAIN h.fills :
                    /\ h.fills[k].bar = next
                    /\ h.fills[k].last_px = drv.data[next].open
               /\ (next # 0 /\ Matched(next) /\ o.status # "CANCELED")
                    => Len(h.fills) = 1

IsPrefix(s, t) == Len(s) <= Len(t) /\ s = SubSeq(t, 1, Len(s))

\* C6: for every bar the driver sets the clock to the bar's ts_event, runs
\* every due timer callback, matches the resting orders, publishes the bar to
\* the strategy and records the balance, in this order; so an order submitted
\* from on_bar for bar N is never evaluated against bar N and is among the
\* resting orders when the matching of the next bar of its instrument starts.
C6_DriverStepsInOrder ==
    /\ IsPrefix(drv.steps, <<"set_time", "timers", "match", "publish", "record">>)
    /\ Len(drv.steps) >= 2 => drv.clock = drv.data[Len(drv.data)].ts_event
    /\ Len(drv.steps) >= 3 => drv.due = << >>
    /\ (Len(drv.steps) >= 3 /\ drv.timer # None) =>
         drv.timer[1].next_time_ns > drv.clock
    /\ (drv.pc = "next_datum" /\ Len(drv.data) > 0) =>
         /\ Len(drv.steps) = 5
         /\ drv.balance_curve[Len(drv.balance_curve)] =
               [ts |-> drv.data[Len(drv.data)].ts_event,
                balance |-> GetTotalBalance(World)]
         /\ Len(drv.balance_curve) = Len(drv.data) + 1
    /\ \A id \in DOMAIN cache.orders :
         hist[id].window = "on_bar" =>
            /\ \A k \in DOMAIN hist[id].evals : hist[id].evals[k] > hist[id].bar
            /\ (/\ drv.pc = "match"
                /\ drv.idx = 0
                /\ Len(drv.data) = NextBarOf(cache.orders[id].instrument_id,
                                             hist[id].bar)
                /\ cache.orders[id].status = "ACCEPTED")
                 => InSeq(exch.open_orders, id)

\* an order submitted from on_bar for bar 1 has been evaluated against bar 2,
\* after a timer callback, and the balance of bar 2 has been recorded
C6_Witness ==
    /\ drv.pc = "next_datum"
    /\ Len(drv.data) = 2
    /\ drv.timer # None
    /\ \E id \in DOMAIN cache.orders :
         /\ hist[id].window = "on_bar"
         /\ hist[id].bar = 1
         /\ hist[id].evals = << 2 >>

\* the OrderFilled events an order has applied
FilledEvents(o) == {k \in DOMAIN o.events : o.events[k].type = "OrderFilled"}

SameSide(p, f) ==
    \/ p.side = "LONG" /\ f.order_side = "BUY"
    \/ p.side = "SHORT" /\ f.order_side = "SELL"

\* the sign a fill moves signed_qty by
Sign(f) == IF f.order_side = "BUY" THEN 1 ELSE -1

\* every fill of the position is on one side
OneSided(p) ==
    \A i \in DOMAIN p.events : p.events[i].order_side = p.events[1].order_side

RECURSIVE SumQty(_, _)
SumQty(events, n) ==
    IF n = 0 THEN 0 ELSE SumQty(events, n - 1) + events[n].last_qty

RECURSIVE SumCost(_, _)
SumCost(events, n) ==
    IF n = 0 THEN 0
    ELSE SumCost(events, n - 1) + events[n].last_px * events[n].last_qty

\* C11: while a position is open, a same-side fill moves avg_px_open to
\* (avg_px_open*|signed_qty| + px*qty) / (|signed_qty| + qty); an opposite
\* fill larger than the open quantity flips the side, leaves the excess as
\* signed_qty with the new sign and sets avg_px_open to the fill's price; an
\* opposite fill equal to the open quantity closes the position without
\* flipping; a smaller opposite fill leaves avg_px_open alone.  Hence a
\* position built by fills of one side has the quantity-weighted average of
\* their prices as avg_px_open.
C11_AvgPxOpenIsWeightedEntryPrice ==
    [][(Filled /\ position_is_open(pos)) =>
        LET f == posLast'.fill
            open_qty == Abs(pos.signed_qty)
        IN  /\ SameSide(pos, f) =>
                 /\ pos'.avg_px_open =
                       RDiv(RAdd(RMul(pos.avg_px_open, RInt(open_qty)),
                                 RInt(f.last_px * f.last_qty)),
                            RInt(open_qty + f.last_qty))
                 /\ pos'.signed_qty = pos.signed_qty + Sign(f) * f.last_qty
                 /\ pos'.side = pos.side
            /\ (Opposite(pos, f) /\ f.last_qty > open_qty) =>
                 /\ pos'.side = (IF pos.side = "LONG" THEN "SHORT" ELSE "LONG")
                 /\ pos'.signed_qty = Sign(f) * (f.last_qty - open_qty)
                 /\ pos'.avg_px_open = RInt(f.last_px)
            /\ (Opposite(pos, f) /\ f.last_qty = open_qty) =>
                 /\ pos'.side = "FLAT"
                 /\ pos'.signed_qty = 0
                 /\ position_is_closed(pos')
            /\ (Opposite(pos, f) /\ f.last_qty < open_qty) =>
                 /\ pos'.side = pos.side
                 /\ pos'.avg_px_open = pos.avg_px_open
            /\ (OneSided(pos') /\ position_is_open(pos')) =>
                 pos'.avg_px_open =
                    RDiv(RInt(SumCost(pos'.events, Len(pos'.events))),
                         RInt(SumQty(pos'.events, Len(pos'.events))))]_vars

\* two buys at different prices built a long position and a larger sell has
\* flipped it: the entry price is the sell's price
C11_Witness ==
    /\ Len(pos.events) = 3
    /\ pos.events[1].order_side = "BUY"
    /\ pos.events[2].order_side = "BUY"
    /\ pos.events[1].last_qty > 0
    /\ pos.events[2].last_qty > 0
    /\ pos.events[1].last_px # pos.events[2].last_px
    /\ pos.events[3].order_side = "SELL"
    /\ pos.events[3].last_px # pos.events[1].last_px
    /\ pos.side = "SHORT"
    /\ pos.signed_qty =
          pos.events[1].last_qty + pos.events[2].last_qty - pos.events[3].last_qty
    /\ pos.avg_px_open = RInt(pos.events[3].last_px)

(***************************************************************************)
(* Claims about positions in a run (checked under SpecNet).                *)
(***************************************************************************)
\* the positions of the cache that are open on an instrument
OpenOn(c, instr) ==
    {i \in DOMAIN c.positions :
        c.positions[i].instrument_id = instr /\ c.positions[i].side # "FLAT"}

\* the execution engine has just handled the position side of a fill
FillHandled == drv.pc = "order_event" /\ drv'.pc = "position_event"

\* C12: on a NETTING venue there is never more than one open position per
\* instrument; a fill is applied to the open position of its instrument when
\* there is one and otherwise opens a new position under an id no position
\* has; a position that is closed (FLAT) never takes another fill.
C12_NettingOneOpenPositionPerInstrument ==
    [][exch.oms_type = "NETTING" =>
        /\ \A instr \in {1, 2} : Cardinality(OpenOn(cache', instr)) <= 1
        /\ \A i \in DOMAIN cache'.positions, j \in DOMAIN cache'.positions :
              cache'.positions[i].id = cache'.positions[j].id => i = j
        /\ \A i \in DOMAIN cache.positions :
              cache.positions[i].side = "FLAT" =>
                 cache'.positions[i] = cache.positions[i]
        /\ ~FillHandled => cache'.positions = cache.positions
        /\ FillHandled =>
              LET o == cache.orders[drv.fill_id]
                  f == drv.fill[1]
                  open == OpenOn(cache, o.instrument_id)
                  n == Len(cache.positions)
              IN  IF open # {}
                  THEN /\ Len(cache'.positions) = n
                       /\ \A i \in open :
                            cache'.positions[i].events =
                               Append(cache.positions[i].events, f)
                       /\ \A i \in (1..n) \ open :
                            cache'.positions[i] = cache.positions[i]
                  ELSE /\ Len(cache'.positions) = n + 1
                       /\ cache'.positions[n + 1].events = << f >>
                       /\ cache'.positions[n + 1].instrument_id = o.instrument_id
                       /\ \A i \in 1..n :
                            /\ cache'.positions[i] = cache.positions[i]
                            /\ cache.positions[i].id # cache'.positions[n + 1].id]_vars

\* on a NETTING venue a position of instrument 1 was closed and the next fill
\* of the instrument opened a second position, which is open
C12_Witness ==
    /\ exch.oms_type = "NETTING"
    /\ Len(cache.positions) = 2
    /\ cache.positions[1].instrument_id = 1
    /\ cache.positions[2].instrument_id = 1
    /\ cache.positions[1].side = "FLAT"
    /\ Len(cache.positions[1].events) = 2
    /\ cache.positions[2].side # "FLAT"
    /\ cache.positions[2].id # cache.positions[1].id

\* the number of fills the exchange has made
RECURSIVE CountFills(_, _)
CountFills(h, n) == IF n = 0 THEN 0 ELSE CountFills(h, n - 1) + Len(h[n].fills)

\* the published position events of one position id are one PositionOpened,
\* then PositionChanged events, then at most one PositionClosed
WellFormedLog(log) ==
    \A j \in DOMAIN log :
        LET earlier == {i \in 1..(j - 1) : log[i].position_id = log[j].position_id}
        IN  /\ log[j].type = "PositionOpened" <=> earlier = {}
            /\ \A i \in earlier : log[i].type # "PositionClosed"

EventTypes(o) == [k \in DOMAIN o.events |-> o.events[k].type]

\* the strategy has just submitted an order and the risk engine denied it
JustDenied ==
    /\ Len(cache'.orders) = Len(cache.orders) + 1
    /\ hist'[Len(hist')].reason # ""

\* C14: an order the risk engine denies becomes DENIED, its OrderDenied is
\* published to the strategy that submitted it and nothing else is, and it is
\* never routed to the venue: it never rests on the exchange, is never
\* evaluated against a bar, never gets OrderAccepted or OrderFilled, and the
\* denial changes no position, no account balance and no resting order.
C14_DeniedOrderNeverReachesVenue ==
    [][/\ \A id \in DOMAIN cache'.orders :
             hist'[id].reason # "" =>
                LET o == cache'.orders[id]
                IN  /\ o.status = "DENIED"
                    /\ EventTypes(o) = << "OrderInitialized", "OrderDenied" >>
                    /\ hist'[id].published =
                          << [type |-> "OrderDenied", topic |-> o.strategy_id] >>
                    /\ ~InSeq(exch'.open_orders, id)
                    /\ ~InSeq(cache'.index, id)
                    /\ ~hist'[id].accepted
                    /\ hist'[id].evals = << >>
                    /\ hist'[id].fills = << >>
                    /\ o.venue_order_id = 0
                    /\ o.filled_qty = 0
       /\ JustDenied =>
             /\ cache'.positions = cache.positions
             /\ exch' = exch
             /\ exec' = exec
             /\ \A id \in DOMAIN cache.orders : cache'.orders[id] = cache.orders[id]]_vars

\* an order for an instrument the cache does not know was denied before a bar
\* of that instrument, and the bar has been matched and published since
C14_Witness ==
    \E id \in DOMAIN cache.orders :
        /\ hist[id].reason # ""
        /\ cache.orders[id].status = "DENIED"
        /\ NextBarOf(cache.orders[id].instrument_id, hist[id].bar) # 0
        /\ drv.pc = "done"


(***************************************************************************)
(* SpecRisk: one call of RiskEngine.validate_order on any order, against   *)
(* any trading state, instrument limits and open position.                 *)
(***************************************************************************)
TradingStates == {"ACTIVE", "REDUCING", "HALTED"}

\* Instrument.min_quantity / max_quantity: absent, or a Quantity (zero is a
\* Quantity the constructor accepts)
LimitSet == {None, Some(0), Some(20)}

\* order quantities of precision 0, and prices (a Price may be zero or
\* negative)
RiskQtySet == {0, 10, 20, 30}

RiskPxSet == {0 - 5, 0, 10}

\* the open positions of instrument 1 in the cache: none, one long, one short
RiskPositions ==
    {<< >>,
     << NewPosition(1, 1, 1, Fill("BUY", 10, 0, 10, 0)) >>,
     << NewPosition(1, 1, 1, Fill("SELL", 10, 0, 10, 0)) >>}

InitRisk ==
    /\ \E state \in TradingStates, instr \in {1, 2}, qprec \in PrecSet,
          qty \in RiskQtySet, min \in LimitSet, max \in LimitSet,
          side \in OrderSides, positions \in RiskPositions,
          pprec \in PrecSet, price \in {None} \cup {Some(p) : p \in RiskPxSet} :
         chk = [exec |-> [trading_state |-> state],
                cache |-> [positions |-> positions,
                           instruments |-> << Instrument(1, 0, 0, min, max) >>],
                reason |-> "",
                called |-> FALSE,
                order |-> NewOrder(1, 1, instr,
                                   IF price = None THEN "MARKET" ELSE "LIMIT",
                                   side, qty, qprec, price, pprec, None, 0, 0)]
    /\ IdleOrd
    /\ IdlePos
    /\ IdleEng

ValidateOrderCall ==
    /\ ~chk.called
    /\ chk' = [chk EXCEPT !.called = TRUE,
                          !.reason = ValidateOrder(chk, chk.order)]
    /\ UNCHANGED <<varsOrd, varsPos, varsEng>>

NextRisk == ValidateOrderCall

SpecRisk == InitRisk /\ [][NextRisk]_vars

(***************************************************************************)
(* C15: validate_order denies an order exactly when a rule fails, with the *)
(* reason of the first failing rule; a quantity limit applies where set.   *)
(***************************************************************************)
\* the rules in the stated order; a limit is set when it is not None
HaltedRule(w, o) == w.exec.trading_state = "HALTED"

InstrumentRule(w, o) == o.instrument_id \notin DOMAIN w.cache.instruments

QtyPrecisionRule(w, o) ==
    o.qprec # w.cache.instruments[o.instrument_id].size_precision

BelowMinRule(w, o) ==
    LET min == w.cache.instruments[o.instrument_id].min_quantity
    IN  min # None /\ o.quantity < min[1]

AboveMaxRule(w, o) ==
    LET max == w.cache.instruments[o.instrument_id].max_quantity
    IN  max # None /\ o.quantity > max[1]

PricePositiveRule(w, o) == o.price # None /\ o.price[1] <= 0

PricePrecisionRule(w, o) ==
    /\ o.price # None
    /\ o.pprec # w.cache.instruments[o.instrument_id].price_precision

ReducingRule(w, o) ==
    /\ w.exec.trading_state = "REDUCING"
    /\ \/ o.side = "BUY" /\ NetPosition(w.cache, o.instrument_id) >= 0
       \/ o.side = "SELL" /\ NetPosition(w.cache, o.instrument_id) <= 0

FirstFailingRule(w, o) ==
    IF HaltedRule(w, o) THEN "Trading is HALTED"
    ELSE IF InstrumentRule(w, o) THEN "No instrument found"
    ELSE IF QtyPrecisionRule(w, o) THEN "Invalid quantity precision"
    ELSE IF BelowMinRule(w, o) THEN "Quantity below minimum"
    ELSE IF AboveMaxRule(w, o) THEN "Quantity above maximum"
    ELSE IF PricePositiveRule(w, o) THEN "Price must be positive"
    ELSE IF PricePrecisionRule(w, o) THEN "Invalid price precision"
    ELSE IF ReducingRule(w, o) THEN "Trading state is REDUCING"
    ELSE ""

\* C15: the result of validate_order is the denial of the first failing
\* rule (halted, instrument missing, quantity precision, below minimum,
\* above maximum where the limit is set, price not positive, price
\* precision, reducing), and no denial when no rule fails.
C15_DenialIsFirstFailingRule ==
    chk.called => chk.reason = FirstFailingRule(chk, chk.order)

\* C15: the same, for instruments whose quantity limits are absent or
\* positive: the result is the denial of the first failing rule.
C15_DenialIsFirstFailingRulePositiveLimits ==
    LET instrument == chk.cache.instruments[1]
    IN  (/\ chk.called
         /\ instrument.min_quantity # Some(0)
         /\ instrument.max_quantity # Some(0))
        => chk.reason = FirstFailingRule(chk, chk.order)

\* an order above a positive maximum was denied for that reason
C15_Witness ==
    /\ chk.called
    /\ chk.cache.instruments[1].max_quantity = Some(20)
    /\ chk.order.quantity = 30
    /\ chk.reason = "Quantity above maximum"

\* an order of positive quantity passed an instrument whose maximum is zero
C15_ZeroMaximumNotEnforced ==
    /\ chk.called
    /\ chk.cache.instruments[1].max_quantity = Some(0)
    /\ chk.order.quantity = 10
    /\ chk.reason = ""


(***************************************************************************)
(* SpecDet: two engines built alike (venue, instrument, data, strategy)    *)
(* run side by side.  The strategy is a deterministic one: what it submits *)
(* depends on the callback it is in and on the orders it has submitted.    *)
(***************************************************************************)
MaxDetOrders == 2

\* the values uuid.uuid4() returns for the event_id of a new event
UuidSet == {1, 2}

\* the callbacks in which a strategy acts
Windows == {"on_start", "order_event", "position_event", "on_bar"}

\* what a strategy submits as its next order, and in which callback
DetOrders ==
    {[order_type |-> type, order_side |-> side, window |-> window] :
        window \in Windows, side \in OrderSides, type \in {"MARKET", "LIMIT"}}

RECURSIVE SeqsUpTo(_, _)
SeqsUpTo(S, n) ==
    IF n = 0 THEN {<< >>}
    ELSE LET shorter == SeqsUpTo(S, n - 1)
         IN  shorter \cup {Append(q, x) : q \in {r \in shorter : Len(r) = n - 1}, x \in S}

\* the bars added to both engines
DetBars(ts) == {Bar(1, open, 15, 10, 1, ts) : open \in {10, 15}}

\* the strategy's next order is due in the callback the engine is in
Wants(w, plan) ==
    LET n == Len(w.cache.orders)
    IN  n < Len(plan.orders) /\ plan.orders[n + 1].window = w.drv.pc

\* the events created so far: order events and position events
RECURSIVE OrderEventCount(_, _)
OrderEventCount(orders, n) ==
    IF n = 0 THEN 0
    ELSE Len(orders[n].events) + OrderEventCount(orders, n - 1)

EventCount(w) ==
    OrderEventCount(w.cache.orders, Len(w.cache.orders)) + Len(w.exec.published)

\* BacktestEngine.run from the state w: the next step of the run
RunStep(w, plan) ==
    LET pc == w.drv.pc
        s == plan.orders[Len(w.cache.orders) + 1]
    IN  IF Wants(w, plan)
        THEN StrategySubmit(w, s.order_type, s.order_side, 1, 10, 0, 10, 1, 10)
        ELSE CASE pc = "on_start" -> DoOnStartReturn(w)
               [] pc = "next_datum" ->
                    IF Len(w.drv.data) < w.drv.n_data
                    THEN DoNextDatum(w, plan.data[Len(w.drv.data) + 1])
                    ELSE [w EXCEPT !.drv.pc = "done"]
               [] pc = "set_time" -> DoSetTime(w)
               [] pc = "timers" -> DoAdvanceTime(w)
               [] pc = "match" ->
                    IF w.drv.idx < Len(w.exch.open_orders) THEN ProcessBarStep(w)
                    ELSE ProcessBarEnd(w)
               [] pc = "order_event" -> HandleFillPosition(w)
               [] pc = "position_event" -> DoPositionEventReturn(w)
               [] pc = "publish" -> DoPublishBar(w)
               [] pc = "on_bar" -> Enter(w, StepAfter("publish"))
               [] pc = "record" -> DoRecordBalance(w)
               [] OTHER -> w

\* the event_id of the newest event is kept by a step that creates no event
KeepEventId(w, r) ==
    IF EventCount(r) > EventCount(w) THEN r
    ELSE [r EXCEPT !.drv.uuid = w.drv.uuid]

\* a step in which events are created gives the newest of them the event_id
\* u; drv.uuid is the event_id of the newest event
RunStepWithEventId(w, plan, u) ==
    KeepEventId(w, RunStep([w EXCEPT !.drv.uuid = u], plan))

Running(w) == w.drv.pc \notin {"done", "crashed"}

InitDet ==
    /\ Is(EngineAtStart(MaxBars, 0, "NETTING", Instrument(1, 0, 1, None, None),
                        TRUE, Some(100000), 2))
    /\ \E orders \in SeqsUpTo(DetOrders, MaxDetOrders),
          data \in [1..MaxBars -> UNION {DetBars(ts) : ts \in 1..MaxBars}] :
         /\ \A ts \in 1..MaxBars : data[ts].ts_event = ts
         /\ chk = [plan |-> [data |-> data, orders |-> orders],
                   twin |-> World,
                   done |-> [first |-> 0, second |-> 0]]
    /\ IdleOrd
    /\ IdlePos

\* The two engines share nothing, so the order in which their steps are
\* taken does not matter: the second follows the first step by step.
FirstEngineStep ==
    /\ Running(World)
    /\ chk.done.first = chk.done.second
    /\ \E u \in UuidSet : Becomes(RunStepWithEventId(World, chk.plan, u))
    /\ chk' = [chk EXCEPT !.done.first = @ + 1]
    /\ UNCHANGED <<varsOrd, varsPos>>

SecondEngineStep ==
    /\ chk.done.second < chk.done.first
    /\ \E u \in UuidSet :
         chk' = [chk EXCEPT !.twin = RunStepWithEventId(chk.twin, chk.plan, u),
                            !.done.second = @ + 1]
    /\ UNCHANGED <<varsOrd, varsPos, varsEng>>

NextDet == FirstEngineStep \/ SecondEngineStep

SpecDet == InitDet /\ [][NextDet]_vars

(***************************************************************************)
(* C16: two engines given the same venue, instrument, data and strategy    *)
(* produce the same events, balance curves and reports.                    *)
(***************************************************************************)
\* an engine's state with the event ids left out
WithoutEventIds(w) == [w EXCEPT !.drv.uuid = 0]

\* BacktestEngine._build_result: the counts and balances of the report
Report(w) ==
    [starting_balance |-> w.drv.starting_balance,
     balance_curve |-> w.drv.balance_curve,
     total_orders |-> Len(w.cache.orders),
     total_positions |-> Len(w.cache.positions),
     total_fills |-> Cardinality({i \in DOMAIN w.cache.orders :
                                     w.cache.orders[i].status = "FILLED"}),
     ending_balance |-> GetTotalBalance(w),
     total_commissions |-> w.exch.account.commissions]

MaxData == 3

MaxRuns == 2

\* the ts_event of the data, and the bounds a run is given
DataTsSet == 0..2

BoundSet == {None} \cup {Some(t) : t \in DataTsSet}

\* a sort that puts a datum before the data of its ts_event
RECURSIVE InsertByTs_Mut(_, _)
InsertByTs_Mut(sorted, d) ==
    IF sorted = << >> THEN << d >>
    ELSE IF sorted[Len(sorted)].ts_event < d.ts_event THEN Append(sorted, d)
    ELSE Append(InsertByTs_Mut(SubSeq(sorted, 1, Len(sorted) - 1), d),
                sorted[Len(sorted)])

\* list.sort(key=ts_event): a stable sort, by insertion from the left
RECURSIVE InsertByTs(_, _)
InsertByTs(sorted, d) ==
    IF sorted = << >> THEN << d >>
    ELSE IF sorted[Len(sorted)].ts_event <= d.ts_event THEN Append(sorted, d)
    ELSE Append(InsertByTs(SubSeq(sorted, 1, Len(sorted) - 1), d),
                sorted[Len(sorted)])

RECURSIVE SortByTs(_)
SortByTs(data) ==
    IF data = << >> THEN << >>
    ELSE InsertByTs(SortByTs(SubSeq(data, 1, Len(data) - 1)), data[Len(data)])

\* [d for d in data if d.ts_event >= start], [... if d.ts_event <= end]
RECURSIVE FilterRange(_, _, _)
FilterRange(data, start, end) ==
    IF data = << >> THEN << >>
    ELSE LET d == Head(data)
             rest == FilterRange(Tail(data), start, end)
         IN  IF /\ start # None => d.ts_event >= start[1]
                /\ end # None => d.ts_event <= end[1]
             THEN << d >> \o rest
             ELSE rest

InitRun ==
    /\ chk = [pc |-> "idle", data |-> << >>, clock |-> 0, start |-> None,
              end |-> None, queue |-> << >>, processed |-> << >>,
              added |-> 0, runs |-> 0]
    /\ IdleOrd
    /\ IdlePos
    /\ IdleEng

\* add_data([d]): the datum is appended to the engine's data
AddData ==
    /\ chk.pc = "idle"
    /\ chk.added < MaxData
    /\ \E ts \in DataTsSet :
         chk' = [chk EXCEPT !.data = Append(@, [ts_event |-> ts,
                                                seq |-> chk.added + 1]),
                            !.added = @ + 1]
    /\ UNCHANGED <<varsOrd, varsPos, varsEng>>

\* run(start, end) up to its loop: the data is sorted in place and filtered
RunBegin ==
    /\ chk.pc = "idle"
    /\ chk.runs < MaxRuns
    /\ \E start \in BoundSet, end \in BoundSet :
         chk' = [chk EXCEPT !.pc = "running",
                            !.data = SortByTs(@),
                            !.start = start,
                            !.end = end,
                            !.queue = FilterRange(SortByTs(chk.data), start, end),
                            !.processed = << >>,
                            !.runs = @ + 1]
    /\ UNCHANGED <<varsOrd, varsPos, varsEng>>

\* the body of the loop for one datum: set_time, advance_time, routing
ProcessDatum ==
    /\ chk.pc = "running"
    /\ chk.queue # << >>
    /\ chk' = [chk EXCEPT !.clock = Head(chk.queue).ts_event,
                          !.processed = Append(@, Head(chk.queue)),
                          !.queue = Tail(@)]
    /\ UNCHANGED <<varsOrd, varsPos, varsEng>>

\* the loop is over: on_stop, the result is built, run returns
RunReturn ==
    /\ chk.pc = "running"
    /\ chk.queue = << >>
    /\ chk' = [chk EXCEPT !.pc = "idle"]
    /\ UNCHANGED <<varsOrd, varsPos, varsEng>>

\* reset(): the data is cleared; the clock keeps its time
Reset ==
    /\ chk.pc = "idle"
    /\ chk.runs > 0
    /\ chk.data # << >>
    /\ chk' = [chk EXCEPT !.data = << >>, !.added = 0]
    /\ UNCHANGED <<varsOrd, varsPos, varsEng>>

NextRun == AddData \/ RunBegin \/ ProcessDatum \/ RunReturn \/ Reset

SpecRun == InitRun /\ [][NextRun]_vars

(***************************************************************************)
(* C17: run(start, end) processes the added data of the window in          *)
(* ts_event order, ties in the order added; the clock never decreases.     *)
(***************************************************************************)
InRange(d, start, end) ==
    /\ start # None => d.ts_event >= start[1]
    /\ end # None => d.ts_event <= end[1]

Elements(q) == {q[i] : i \in DOMAIN q}

\* the data processed by the run are the added data of the window, each
\* once, by ts_event, and by the order of adding where ts_event is equal
ProcessedWindowInOrder(c) ==
    /\ Elements(c.processed) = {d \in Elements(c.data) : InRange(d, c.start, c.end)}
    /\ Len(c.processed) = Cardinality(Elements(c.processed))
    /\ \A i, j \in DOMAIN c.processed :
          i < j =>
            \/ c.processed[i].ts_event < c.processed[j].ts_event
            \/ /\ c.processed[i].ts_event = c.processed[j].ts_event
               /\ c.processed[i].seq < c.processed[j].seq

RunReturns == chk.pc = "running" /\ chk'.pc = "idle"

DuringRun == chk.pc = "running" \/ chk'.pc = "running"

\* C17: when run(start, end) returns it has processed exactly the added
\* data with ts_event in [start, end] (a bound that is None does not bound),
\* in non-decreasing ts_event order with equal ts_event in the order added;
\* and no step of a run decreases the clock's timestamp.
C17_RunProcessesWindowInOrder ==
    [][/\ RunReturns => ProcessedWindowInOrder(chk)
       /\ DuringRun => chk'.clock >= chk.clock]_vars

\* C17, the data part: what a run has processed when it returns, and the
\* clock from the first datum of a run on (after a datum has been processed
\* the clock does not decrease during that run).
C17_RunProcessesWindowInOrderClockFromFirstDatum ==
    [][/\ RunReturns => ProcessedWindowInOrder(chk)
       /\ (DuringRun /\ chk.processed # << >>) => chk'.clock >= chk.clock]_vars

\* a run has processed two data of equal ts_event added after a later one,
\* and left a datum out
C17_Witness ==
    /\ chk.pc = "idle"
    /\ chk.runs > 0
    /\ Len(chk.processed) = 2
    /\ chk.processed[1].ts_event = chk.processed[2].ts_event
    /\ \E d \in Elements(chk.data) :
          /\ d.seq < chk.processed[1].seq
          /\ d.ts_event > chk.processed[1].ts_event
          /\ ~InRange(d, chk.start, chk.end)

\* a second run starts with the clock ahead of its first datum
C17_ClockAheadOfFirstDatum ==
    /\ chk.pc = "running"
    /\ chk.queue # << >>
    /\ chk.processed = << >>
    /\ Head(chk.queue).ts_event < chk.clock


(***************************************************************************)
(* SpecClock: set_timer, cancel_timer and advance_time on a TestClock with *)
(* up to two timer names.                                                  *)
(***************************************************************************)
MaxTime == 4

MaxClockCalls == 4

TimerNames == {1, 2}

\* the arguments of set_timer
IntervalSet == {1, 2}

StartSet == {None, Some(0), Some(1)}

StopSet == {None, Some(2), Some(3)}

\* the place of a name among the keys of the dict of timers; 0: not a key
RECURSIVE IndexOfName(_, _)
IndexOfName(timers, name) ==
    IF timers = << >> THEN 0
    ELSE IF timers[Len(timers)].name = name THEN Len(timers)
    ELSE IndexOfName(SubSeq(timers, 1, Len(timers) - 1), name)

\* Clock.set_timer: start_time_ns or self.timestamp_ns; the timer takes
\* the place of a timer of its name, or the last place
SetTimer(c, name, interval_ns, start_time_ns, stop_time_ns) ==
    LET start == IF start_time_ns # None /\ start_time_ns[1] # 0
                 THEN start_time_ns[1] ELSE c.time_ns
        timer == [Timer(interval_ns, start) EXCEPT !.stop_time_ns = stop_time_ns]
        entry == [timer |-> timer, name |-> name]
        i == IndexOfName(c.timers, name)
    IN  [c EXCEPT !.timers = IF i = 0 THEN Append(@, entry)
                             ELSE [@ EXCEPT ![i] = entry]]

\* Clock.cancel_timer
RECURSIVE WithoutName(_, _)
WithoutName(timers, name) ==
    IF timers = << >> THEN << >>
    ELSE IF Head(timers).name = name THEN WithoutName(Tail(timers), name)
    ELSE << Head(timers) >> \o WithoutName(Tail(timers), name)

CancelTimer(c, name) == [c EXCEPT !.timers = WithoutName(@, name)]

\* the events of one timer, in the order they are appended
RECURSIVE TimeEvents(_, _)
TimeEvents(name, times) ==
    IF times = << >> THEN << >>
    ELSE << [ts_event |-> Head(times), name |-> name] >>
         \o TimeEvents(name, Tail(times))

\* TestClock.advance_time, the loop over the timers: the timers that stay
\* (each with its next_time_ns moved on) and the events in append order
RECURSIVE AdvanceTimers(_, _)
AdvanceTimers(timers, to_time_ns) ==
    IF timers = << >> THEN [events |-> << >>, timers |-> << >>]
    ELSE LET r == AdvanceTimer(Head(timers).timer, to_time_ns, << >>)
             rest == AdvanceTimers(Tail(timers), to_time_ns)
         IN  [events |-> TimeEvents(Head(timers).name, r.events) \o rest.events,
              timers |-> IF r.timer = None THEN rest.timers
                         ELSE << [timer |-> r.timer[1],
                                  name |-> Head(timers).name] >> \o rest.timers]

\* TestClock.advance_time
AdvanceTime_(c, to_time_ns) ==
    LET r == AdvanceTimers(c.timers, to_time_ns)
    IN  [c EXCEPT !.timers = r.timers,
                  !.time_ns = to_time_ns,
                  !.events = SortByTs(r.events),
                  !.to_time_ns = to_time_ns]

\* what is remembered of each timer name for the claims: the start the
\* caller gave (the time of the call when none was given) and the fire
\* times emitted since
Registered(start_time_ns, now) ==
    [start |-> IF start_time_ns # None THEN start_time_ns[1] ELSE now,
     emitted |-> {}]

EmittedBy(events, name) ==
    {events[i].ts_event : i \in {j \in DOMAIN events : events[j].name = name}}

InitClock ==
    /\ chk = [events |-> << >>,
              to_time_ns |-> 0,
              timers |-> << >>,
              time_ns |-> 0,
              op |-> "init",
              calls |-> 0,
              given |-> [n \in TimerNames |-> Registered(None, 0)]]
    /\ IdleOrd
    /\ IdlePos
    /\ IdleEng

SetTimerCall ==
    /\ chk.calls < MaxClockCalls
    /\ \E name \in TimerNames, interval_ns \in IntervalSet,
          start_time_ns \in StartSet, stop_time_ns \in StopSet :
         chk' = [SetTimer(chk, name, interval_ns, start_time_ns, stop_time_ns)
                   EXCEPT !.op = "set_timer",
                          !.calls = @ + 1,
                          !.given[name] = Registered(start_time_ns, chk.time_ns)]
    /\ UNCHANGED <<varsOrd, varsPos, varsEng>>

CancelTimerCall ==
    /\ chk.calls < MaxClockCalls
    /\ \E name \in TimerNames :
         /\ IndexOfName(chk.timers, name) # 0
         /\ chk' = [CancelTimer(chk, name) EXCEPT !.op = "cancel_timer",
                                             !.calls = @ + 1]
    /\ UNCHANGED <<varsOrd, varsPos, varsEng>>

AdvanceTimeCall ==
    /\ chk.calls < MaxClockCalls
    /\ \E to_time_ns \in 0..MaxTime :
         LET c == AdvanceTime_(chk, to_time_ns)
         IN  chk' = [c EXCEPT !.op = "advance_time",
                              !.calls = @ + 1,
                              !.given = [n \in TimerNames |->
                                  [@[n] EXCEPT !.emitted =
                                      @ \cup EmittedBy(c.events, n)]]]
    /\ UNCHANGED <<varsOrd, varsPos, varsEng>>

NextClock == SetTimerCall \/ CancelTimerCall \/ AdvanceTimeCall

SpecClock == InitClock /\ [][NextClock]_vars


(***************************************************************************)
(* C18: advance_time(to) returns one event for every fire time due and not *)
(* yet emitted, in ts_event order, and leaves the clock at `to`.           *)
(***************************************************************************)
IsRegistered(c, name) == IndexOfName(c.timers, name) # 0

TimerOf(c, name) == c.timers[IndexOfName(c.timers, name)].timer

AdvanceTimeReturns == chk'.op = "advance_time"

\* the fire times start + k * interval (k >= 1) up to `to` that are not
\* past the stop time and were not emitted before
DueFireTimes(start, timer, emitted, to) ==
    {t \in 0..(MaxTime + 2) :
        /\ \E k \in 1..(MaxTime + 2) : t = start + k * timer.interval_ns
        /\ t <= to
        /\ t \notin emitted
        /\ timer.stop_time_ns # None => t <= timer.stop_time_ns[1]}

EventsOf(events, name) == {i \in DOMAIN events : events[i].name = name}

\* the events returned are one for each due fire time of each registered
\* timer, counted from the given start, ascending, and the clock is at `to`
ReturnsDueEvents(c, d, start(_)) ==
    /\ \A name \in TimerNames :
          IF IsRegistered(c, name)
          THEN /\ EmittedBy(d.events, name) =
                    DueFireTimes(start(name), TimerOf(c, name),
                                 c.given[name].emitted, d.to_time_ns)
               /\ Cardinality(EventsOf(d.events, name)) =
                    Cardinality(EmittedBy(d.events, name))
          ELSE EventsOf(d.events, name) = {}
    /\ \A i, j \in DOMAIN d.events :
          i < j => d.events[i].ts_event <= d.events[j].ts_event
    /\ d.time_ns = d.to_time_ns

GivenStart(name) == chk.given[name].start

TimerStart(name) == TimerOf(chk, name).start_time_ns

\* C18: advance_time(to) returns exactly one TimeEvent for every fire time
\* start + k * interval (k >= 1) <= to of every registered timer that was
\* not emitted by an earlier call and is not past the stop time, in
\* ascending ts_event order, and the clock's timestamp is `to` afterwards;
\* overdue fire times of a timer started in the past are all emitted.
C18_AdvanceTimeReturnsDueEvents ==
    [][AdvanceTimeReturns => ReturnsDueEvents(chk, chk', GivenStart)]_vars

\* C18 with the fire times counted from the start_time_ns the timer holds
\* (the clock's time at set_timer when the start given is None or 0)
C18_AdvanceTimeReturnsDueEventsFromTimerStart ==
    [][AdvanceTimeReturns => ReturnsDueEvents(chk, chk', TimerStart)]_vars

\* two timers' events were returned interleaved, one timer emitting two
\* overdue events in one call
C18_Witness ==
    /\ chk.op = "advance_time"
    /\ Len(chk.events) = 3
    /\ chk.events[1].name # chk.events[2].name
    /\ chk.events[1].name = chk.events[3].name
    /\ chk.events[1].ts_event < chk.events[2].ts_event
    /\ chk.events[2].ts_event < chk.events[3].ts_event

(***************************************************************************)
(* C19: a timer with a stop time emits nothing past it and is gone once    *)
(* its next fire time is past it.                                          *)
(***************************************************************************)
\* no event returned is past the stop time of its timer
NoEventPastStop(c, d) ==
    \A i \in DOMAIN d.events :
       LET timer == TimerOf(c, d.events[i].name)
       IN  timer.stop_time_ns # None => d.events[i].ts_event <= timer.stop_time_ns[1]

\* no registered timer has its next fire time past its stop time
NoTimerPastStop(c) ==
    \A i \in DOMAIN c.timers :
       c.timers[i].timer.stop_time_ns # None =>
         c.timers[i].timer.next_time_ns <= c.timers[i].timer.stop_time_ns[1]

\* C19: advance_time emits no TimeEvent with ts_event greater than the
\* stop time of its timer, and after the call no timer is registered whose
\* next fire time exceeds its stop time.
C19_StoppedTimerIsSilentAndGone ==
    [][AdvanceTimeReturns => NoEventPastStop(chk, chk') /\ NoTimerPastStop(chk')]_vars

\* C19, what holds: no event past the stop time; a timer whose next fire
\* time exceeds its stop time is gone after an advance_time that reaches
\* that fire time.
C19_StoppedTimerIsSilentAndGoneWhenReached ==
    [][AdvanceTimeReturns =>
         /\ NoEventPastStop(chk, chk')
         /\ \A i \in DOMAIN chk'.timers :
               LET timer == chk'.timers[i].timer
               IN  (/\ timer.stop_time_ns # None
                    /\ timer.next_time_ns > timer.stop_time_ns[1])
                   => timer.next_time_ns > chk'.to_time_ns]_vars

\* advance_time has returned the last event a timer may emit and the timer
\* is still registered, its next fire time past its stop time
C19_TimerPastStopRegistered ==
    /\ chk.op = "advance_time"
    /\ chk.events # << >>
    /\ ~NoTimerPastStop(chk)


(***************************************************************************)
(* SpecBus: subscribe, unsubscribe and publish on a MessageBus.  A handler *)
(* may subscribe and unsubscribe while a message is delivered to it.       *)
(***************************************************************************)
MaxBusCalls == 5

Topics == {1, 2}

Handlers == {1, 2, 3}

\* `handler in subs`
InSubs(subs, handler) == \E i \in DOMAIN subs : subs[i] = handler

\* a bus that appends the handler whether it is subscribed or not
Subscribe_Mut(bus, topic, handler) == [bus EXCEPT ![topic] = Append(@, handler)]

\* MessageBus.subscribe
Subscribe(bus, topic, handler) ==
    IF InSubs(bus[topic], handler) THEN bus
    ELSE [bus EXCEPT ![topic] = Append(@, handler)]

\* list.remove: the first occurrence is taken out
RECURSIVE Remove(_, _)
Remove(subs, handler) ==
    IF subs = << >> THEN << >>
    ELSE IF Head(subs) = handler THEN Tail(subs)
    ELSE << Head(subs) >> \o Remove(Tail(subs), handler)

\* MessageBus.unsubscribe
Unsubscribe(bus, topic, handler) ==
    IF InSubs(bus[topic], handler) THEN [bus EXCEPT ![topic] = Remove(@, handler)]
    ELSE bus

\* publish, the for loop over the list of the topic: the iterator takes
\* the element at its index of the list as it is now, or the loop ends
IterNext(c) ==
    IF c.idx < Len(c.subscriptions[c.topic])
    THEN [c EXCEPT !.pc = "handler",
                   !.idx = @ + 1,
                   !.invoked = Append(@, c.subscriptions[c.topic][c.idx + 1])]
    ELSE [c EXCEPT !.pc = "idle"]

InitBus ==
    /\ chk = [pc |-> "idle",
              topic |-> 1,
              idx |-> 0,
              op |-> "init",
              calls |-> 0,
              subscriptions |-> [t \in Topics |-> << >>],
              invoked |-> << >>,
              at_call |-> << >>,
              firsts |-> [t \in Topics |-> << >>],
              changed |-> FALSE]
    /\ IdleOrd
    /\ IdlePos
    /\ IdleEng

\* subscribe(topic, handler), from outside or from the handler that runs
SubscribeCall ==
    /\ chk.calls < MaxBusCalls
    /\ \E topic \in Topics, handler \in Handlers :
         chk' = [chk EXCEPT
                   !.subscriptions = Subscribe(@, topic, handler),
                   !.firsts[topic] = IF InSubs(@, handler) THEN @
                                     ELSE Append(@, handler),
                   !.changed = @ \/ chk.pc = "handler",
                   !.calls = @ + 1,
                   !.op = "subscribe"]
    /\ UNCHANGED <<varsOrd, varsPos, varsEng>>

UnsubscribeCall ==
    /\ chk.calls < MaxBusCalls
    /\ \E topic \in Topics, handler \in Handlers :
         chk' = [chk EXCEPT
                   !.subscriptions = Unsubscribe(@, topic, handler),
                   !.changed = @ \/ chk.pc = "handler",
                   !.calls = @ + 1,
                   !.op = "unsubscribe"]
    /\ UNCHANGED <<varsOrd, varsPos, varsEng>>

\* publish(topic, msg) is called: the loop starts
PublishCall ==
    /\ chk.pc = "idle"
    /\ chk.calls < MaxBusCalls
    /\ \E topic \in Topics :
         chk' = IterNext([chk EXCEPT !.topic = topic,
                                     !.idx = 0,
                                     !.invoked = << >>,
                                     !.at_call = chk.subscriptions[topic],
                                     !.changed = FALSE,
                                     !.calls = @ + 1,
                                     !.op = "publish"])
    /\ UNCHANGED <<varsOrd, varsPos, varsEng>>

\* the handler returns: the loop goes on, or publish returns
HandlerReturn ==
    /\ chk.pc = "handler"
    /\ chk' = IterNext([chk EXCEPT !.op = "return"])
    /\ UNCHANGED <<varsOrd, varsPos, varsEng>>

NextBus == SubscribeCall \/ UnsubscribeCall \/ PublishCall \/ HandlerReturn

SpecBus == InitBus /\ [][NextBus]_vars

(***************************************************************************)
(* C20: publish invokes the handlers subscribed to the topic, each once,   *)
(* in subscription order.                                                  *)
(***************************************************************************)
PublishReturns == chk'.pc = "idle" /\ chk'.op \in {"publish", "return"}

\* the place of a handler in a list of distinct handlers
PlaceIn(q, handler) == CHOOSE i \in DOMAIN q : q[i] = handler

\* the sequence invokes exactly the handlers of subs, each once
InvokesEachOnce(invoked, subs) ==
    /\ Elements(invoked) = Elements(subs)
    /\ Len(invoked) = Cardinality(Elements(subs))

\* the sequence follows the order the list q gives its handlers
InOrderOf(invoked, q) ==
    \A i, j \in DOMAIN invoked :
       i < j => PlaceIn(q, invoked[i]) < PlaceIn(q, invoked[j])

\* C20: when publish(topic, msg) returns it has invoked each handler
\* subscribed to the topic at the call exactly once (one subscribed again
\* is not invoked twice; one unsubscribed, or subscribed to another topic
\* only, is not invoked), in the order of the handlers' first subscription
\* to the topic.
C20_PublishInvokesSubscribersOnceInOrder ==
    [][PublishReturns =>
         /\ InvokesEachOnce(chk'.invoked, chk'.at_call)
         /\ InOrderOf(chk'.invoked, chk'.firsts[chk'.topic])]_vars

\* C20 for a publish during which no handler subscribes or unsubscribes:
\* the handlers subscribed at the call are invoked once each, in the order
\* of the subscriptions they hold (the list of the topic); and a list of
\* subscriptions never holds a handler twice.
C20_PublishInvokesCurrentSubscriptions ==
    [][/\ (PublishReturns /\ ~chk'.changed) => chk'.invoked = chk'.at_call
       /\ \A t \in Topics :
             Len(chk'.subscriptions[t]) = Cardinality(Elements(chk'.subscriptions[t]))]_vars

\* a publish has invoked the two handlers of its topic and not the handler
\* subscribed to the other topic only
C20_Witness ==
    /\ chk.pc = "idle"
    /\ ~chk.changed
    /\ Len(chk.invoked) = 2
    /\ chk.calls = MaxBusCalls
    /\ Len(chk.subscriptions[3 - chk.topic]) = 1
    /\ ~InSubs(chk.invoked, chk.subscriptions[3 - chk.topic][1])

\* a handler unsubscribed itself while the message was delivered to it and
\* the handler subscribed after it was not invoked
C20_SubscriberSkipped ==
    /\ chk.pc = "idle"
    /\ chk.changed
    /\ Len(chk.at_call) = 2
    /\ chk.invoked = << chk.at_call[1] >>
    /\ chk.subscriptions[chk.topic] = << chk.at_call[2] >>


(***************************************************************************)
(* Claims about the order's average price and event list (SpecOrder).      *)
(***************************************************************************)
\* avg_px * filled_qty, the value the fills applied so far should add up to
FilledValue(o) == RMul(o.avg_px, RInt(o.filled_qty))

\* the call just made applied a fill (it returned)
FillApplied == Called /\ ordLast'.evt.type = "OrderFilled" /\ ordLast'.err = "none"

NoFillIn(events) == \A i \in DOMAIN events : events[i].type # "OrderFilled"

\* C21 as stated, step by step: avg_px * filled_qty starts at 0, grows by
\* last_px * last_qty with every fill that is applied and changes with no
\* other call, so that it is the sum over the applied fills; avg_px is 0
\* while no fill has been applied.
C21_AvgPxTimesFilledIsSumOfAppliedFills ==
    [][Called =>
        /\ FilledValue(ord') =
              RAdd(FilledValue(ord),
                   IF FillApplied
                   THEN RInt(ordLast'.evt.last_px * ordLast'.evt.last_qty)
                   ELSE RZero)
        /\ NoFillIn(ord'.events) => ord'.avg_px = RZero]_vars

\* what does hold: a fill that is applied (the call returns) and whose
\* quantity has the precision of the order, on an order whose filled_qty the
\* earlier calls left at that precision, adds last_px * last_qty
C21_AppliedFillOfOrderPrecisionAddsItsValue ==
    [][(/\ FillApplied
        /\ QuantityValue(ordLast'.evt.last_qty, ord.qprec) = ordLast'.evt.last_qty
        /\ QuantityValue(ord.filled_qty, ord.qprec) = ord.filled_qty)
       => FilledValue(ord') =
            RAdd(FilledValue(ord), RInt(ordLast'.evt.last_px * ordLast'.evt.last_qty))]_vars

\* a fill that was refused has moved avg_px all the same
C21_RefusedFillMovedAvgPx ==
    /\ ordLast.n > 0
    /\ ordLast.evt.type = "OrderFilled"
    /\ ordLast.err # "none"
    /\ NoFillIn(ord.events)
    /\ ord.avg_px # RZero


\* the largest ts_event among the events of a list
RECURSIVE MaxTs(_)
MaxTs(events) ==
    IF events = << >> THEN 0
    ELSE Max(events[Len(events)].ts, MaxTs(SubSeq(events, 1, Len(events) - 1)))

\* the event of the call just made, as the events list keeps it
CalledEvent == [type |-> ordLast'.evt.type, ts |-> ordLast'.evt.ts]

\* an apply call appends its event when it returns and nothing when it raises
EventsAppendOnly ==
    /\ ord.events[1].type = "OrderInitialized"
    /\ Called =>
         ord'.events = IF ordLast'.err = "none" THEN Append(ord.events, CalledEvent)
                       ELSE ord.events

\* C22 as stated: the events list grows by each applied event, in order,
\* after OrderInitialized, and ts_last is the maximum ts_event of the events
\* applied so far and so never decreases.
C22_EventsAppendOnlyTsLastIsMax ==
    [][/\ EventsAppendOnly
       /\ ord'.ts_last = MaxTs(ord'.events)
       /\ ord'.ts_last >= ord.ts_last]_vars

\* what does hold: the events list as stated, and ts_last is the ts_event of
\* the event applied last
C22_EventsAppendOnlyTsLastIsLatest ==
    [][/\ EventsAppendOnly
       /\ ord'.ts_last = ord'.events[Len(ord'.events)].ts]_vars

\* an event older than the one before it has been applied and ts_last went back
C22_TsLastWentBack ==
    /\ ordLast.n > 0
    /\ ordLast.err = "none"
    /\ ord.ts_last < MaxTs(ord.events)


(***************************************************************************)
(* Claims about the account's event list (SpecFill).                       *)
(***************************************************************************)
\* the fills that debited or credited the balance
BalanceFills == {x \in AllFills : hist[x[1]].fills[x[2]].balance_before # None}

\* the balance mutations so far: the funding at registration, if the venue
\* was given a starting balance, and one per fill that posted to the balance
BalanceMutations ==
    (IF exch.account.balances # None THEN 1 ELSE 0) + Cardinality(BalanceFills)

\* C23 as stated: the account's event list holds one AccountState event per
\* balance mutation (the initial funding and each fill's debit or credit).
C23_AccountEventPerBalanceMutation ==
    Len(exch.account.events) = BalanceMutations

\* what does hold: the account's event list stays empty
C23_AccountEventsStayEmpty == exch.account.events = << >>

\* a fill has changed the balance and the account has no event
C23_BalanceChangedWithoutEvent ==
    /\ \E x \in BalanceFills :
         hist[x[1]].fills[x[2]].balance_after # hist[x[1]].fills[x[2]].balance_before
    /\ exch.account.events = << >>


(***************************************************************************)
(* SpecHedge: a NETTING venue (the engine variables) and a HEDGING venue   *)
(* (chk.twin) are given the same orders, and their execution engines the   *)
(* same OrderFilled events, some of which carry a position_id.             *)
(***************************************************************************)
MaxHedgeOrders == 2

MaxHedgeFills == 3

PositionIdSet == {None, Some(1), Some(2), Some(3)}

VenueAtStart(oms_type) ==
    AddSecondInstrument(
        EngineAtStart(0, 0, oms_type, Instrument(1, 0, 1, None, None), TRUE,
                      Some(100000), 2),
        Instrument(1, 0, 1, None, None))

InitHedge ==
    /\ Is(VenueAtStart("NETTING"))
    /\ chk = [twin |-> VenueAtStart("HEDGING"),
              calls |-> 0,
              no_ids |-> TRUE,
              last |-> None]
    /\ IdleOrd
    /\ IdlePos

HedgeSubmit(w, side, instr) ==
    StrategySubmit(w, "MARKET", side, instr, 20, 0, 10, 1, 10)

\* on both venues on_start submits a market order for one of the instruments
HedgeSubmitOrder ==
    \E side \in OrderSides, instr \in {1, 2} :
        /\ ~Crashed(World)
        /\ Len(cache.orders) < MaxHedgeOrders
        /\ Becomes(HedgeSubmit(World, side, instr))
        /\ chk' = [chk EXCEPT !.twin = HedgeSubmit(@, side, instr)]
        /\ UNCHANGED <<varsOrd, varsPos>>

HedgeFilled(w, id, last_qty, last_px, position_id) ==
    ProcessFilled(w, id,
                  FilledEvent(1, w.cache.orders[id].venue_order_id, last_qty, last_px),
                  Fill(w.cache.orders[id].side, last_qty, w.cache.orders[id].qprec,
                       last_px, 0),
                  position_id)

\* both execution engines are handed the same OrderFilled event
HedgeProcessFilled ==
    \E id \in DOMAIN cache.orders, last_qty \in {10, 20}, last_px \in PxSet,
       position_id \in PositionIdSet :
        /\ ~Crashed(World)
        /\ chk.calls < MaxHedgeFills
        /\ Becomes(HedgeFilled(World, id, last_qty, last_px, position_id))
        /\ chk' = [chk EXCEPT
                     !.twin = HedgeFilled(@, id, last_qty, last_px, position_id),
                     !.calls = @ + 1,
                     !.no_ids = @ /\ position_id = None,
                     !.last = Some([id |-> id,
                                    fill |-> Fill(cache.orders[id].side, last_qty,
                                                  cache.orders[id].qprec, last_px, 0),
                                    position_id |-> position_id])]
        /\ UNCHANGED <<varsOrd, varsPos>>

NextHedge == HedgeSubmitOrder \/ HedgeProcessFilled

SpecHedge == InitHedge /\ [][NextHedge]_vars

(***************************************************************************)
(* Claims about fills on HEDGING and NETTING venues (SpecHedge).           *)
(***************************************************************************)
\* while no fill has carried a position_id the two venues hold the same
\* positions and have published the same position events
VenuesAgree ==
    chk.no_ids =>
        /\ cache.positions = chk.twin.cache.positions
        /\ exec.published = chk.twin.exec.published

\* the fill just processed named a cached position and was applied to the order
NamedFillApplied(before, after) ==
    /\ chk'.calls = chk.calls + 1
    /\ chk'.last[1].position_id # None
    /\ chk'.last[1].position_id[1] \in DOMAIN before.cache.positions
    /\ ~Crashed(after)

\* position pid took fill f and no other position changed or appeared
AppliedToExactly(before, after, pid, f) ==
    /\ DOMAIN after.cache.positions = DOMAIN before.cache.positions
    /\ after.cache.positions[pid] = PositionApply(before.cache.positions[pid], f)
    /\ \A i \in DOMAIN before.cache.positions :
         i # pid => after.cache.positions[i] = before.cache.positions[i]

NamedFillGoesToNamed(before, after) ==
    NamedFillApplied(before, after) =>
        AppliedToExactly(before, after, chk'.last[1].position_id[1], chk'.last[1].fill)

WorldNext == [drv |-> drv', exch |-> exch', exec |-> exec', cache |-> cache',
              hist |-> hist']

\* C24 as stated: fills without position_id give the same positions and the
\* same position events on a HEDGING and on a NETTING venue; a fill that
\* carries the position_id of a cached position is applied to exactly that
\* position and to no other.
C24_SameWithoutIdAndNamedPositionTakesFill ==
    [][/\ VenuesAgree'
       /\ NamedFillGoesToNamed(chk.twin, chk'.twin)
       /\ NamedFillGoesToNamed(World, WorldNext)]_vars

\* C24 amended: fills without position_id give the same positions and the
\* same position events on a HEDGING and on a NETTING venue; on a HEDGING
\* venue a fill that carries the position_id of a cached position is applied
\* to exactly that position and to no other (a NETTING venue does not read
\* the position_id: there the fill goes to the instrument's open position,
\* or opens one).
C24_SameWithoutIdAndHedgingNamedPositionTakesFill ==
    [][/\ VenuesAgree'
       /\ NamedFillGoesToNamed(chk.twin, chk'.twin)]_vars

\* on the HEDGING venue a fill has been applied to the position it named,
\* which was not the open position of the order's instrument, and the NETTING
\* venue, given the same events, holds other positions
C24_Witness ==
    /\ chk.last # None
    /\ chk.last[1].position_id = Some(1)
    /\ ~Crashed(chk.twin)
    /\ Len(chk.twin.cache.positions) = 2
    /\ chk.twin.cache.positions[1].instrument_id # cache.orders[chk.last[1].id].instrument_id
    /\ Len(chk.twin.cache.positions[1].events) = 2
    /\ chk.twin.cache.positions[1].events[2] = chk.last[1].fill
    /\ cache.positions # chk.twin.cache.positions


(***************************************************************************)
(* Claims about the balance curve and the report (Spec).                   *)
(***************************************************************************)
\* what the fills made on bars 1..k have added to the total balance
RECURSIVE PostedBy(_, _)
PostedBy(fills, k) ==
    IF fills = {} THEN 0
    ELSE LET x == CHOOSE y \in fills : TRUE
             f == hist[x[1]].fills[x[2]]
         IN  PostedBy(fills \ {x}, k)
             + (IF f.bar <= k THEN f.balance_after[1] - f.balance_before[1] ELSE 0)

\* the total balance right after bar k was matched and published
BalanceAfterBar(k) == drv.starting_balance + PostedBy(AllFills, k)

\* the bars whose body of the loop has been run to its end
BarsRecorded ==
    IF drv.pc \in {"next_datum", "done"} THEN Len(drv.data) ELSE Len(drv.data) - 1

MaxCurve == 4

BalanceSet == 0..3

\* a loop that never raises the peak above the starting balance
RECURSIVE DrawdownLoop_Mut(_, _, _, _)
DrawdownLoop_Mut(curve, i, peak, max_drawdown) ==
    IF i > Len(curve) THEN max_drawdown
    ELSE DrawdownLoop_Mut(curve, i + 1, peak,
                          Max(max_drawdown, peak - curve[i].balance))

\* `for ts, bal in balance_curve`, from point i on, with the peak and the
\* maximum the earlier points have left
RECURSIVE DrawdownLoop(_, _, _, _)
DrawdownLoop(curve, i, peak, max_drawdown) ==
    IF i > Len(curve) THEN max_drawdown
    ELSE LET bal == curve[i].balance
             new_peak == IF bal > peak THEN bal ELSE peak
             dd == new_peak - bal
         IN  DrawdownLoop(curve, i + 1, new_peak,
                          IF dd > max_drawdown THEN dd ELSE max_drawdown)

\* _build_result, the max_drawdown of the report
MaxDrawdown(starting_balance, balance_curve) ==
    DrawdownLoop(balance_curve, 1, starting_balance, 0)

InitDrawdown ==
    /\ \E starting_balance \in BalanceSet :
         chk = [starting_balance |-> starting_balance,
                balance_curve |-> << >>,
                max_drawdown |-> None]
    /\ IdleOrd
    /\ IdlePos
    /\ IdleEng

\* the run appends a point to the curve
AppendPoint ==
    \E bal \in BalanceSet :
        /\ chk.max_drawdown = None
        /\ Len(chk.balance_curve) < MaxCurve
        /\ chk' = [chk EXCEPT !.balance_curve =
                      Append(@, [ts |-> Len(@) + 1, balance |-> bal])]
        /\ UNCHANGED <<varsOrd, varsPos, varsEng>>

BuildResult ==
    /\ chk.max_drawdown = None
    /\ chk' = [chk EXCEPT !.max_drawdown =
                  Some(MaxDrawdown(chk.starting_balance, chk.balance_curve))]
    /\ UNCHANGED <<varsOrd, varsPos, varsEng>>

NextDrawdown == AppendPoint \/ BuildResult

SpecDrawdown == InitDrawdown /\ [][NextDrawdown]_vars

(***************************************************************************)
(* Claims about max_drawdown (SpecDrawdown).                               *)
(***************************************************************************)
SetMax(S) == CHOOSE x \in S : \A y \in S : y <= x

\* the highest balance seen up to and including point k, the starting
\* balance included
RunningPeak(k) ==
    SetMax({chk.starting_balance} \cup {chk.balance_curve[j].balance : j \in 1..k})

NeverBelowEarlierPeak ==
    \A k \in DOMAIN chk.balance_curve : chk.balance_curve[k].balance = RunningPeak(k)

\* C26: max_drawdown is the maximum over the points of the curve of the
\* running peak (starting from the starting balance) minus the balance at the
\* point, and it is 0 when the curve never falls below an earlier peak.
C26_MaxDrawdownIsMaxPeakMinusBalance ==
    chk.max_drawdown # None =>
        /\ chk.max_drawdown[1] =
              SetMax({0} \cup {RunningPeak(k) - chk.balance_curve[k].balance :
                                  k \in DOMAIN chk.balance_curve})
        /\ NeverBelowEarlierPeak => chk.max_drawdown[1] = 0

\* the curve rose above the starting balance and then fell by more than it
\* had fallen before: the drawdown is measured from the later peak
C26_Witness ==
    /\ chk.max_drawdown = Some(3)
    /\ chk.starting_balance = 1
    /\ Len(chk.balance_curve) = 3
    /\ chk.balance_curve[1].balance = 0
    /\ chk.balance_curve[2].balance = 3
    /\ chk.balance_curve[3].balance = 0


(***************************************************************************)
(* SpecResult: the calls add_strategy, add_data, run, reset, dispose and   *)
(* get_result on one BacktestEngine with one venue and one instrument.     *)
(* The engine variables hold the engines between the calls; a run is one   *)
(* step.                                                                   *)
(***************************************************************************)
MaxResultCalls == 5

\* what the strategy does in a run: nothing, or one market order in on_start
ResultPlans ==
    {<< >>}
    \cup {<< [order_type |-> "MARKET", order_side |-> side, window |-> "on_start"] >> :
             side \in OrderSides}

\* the orders of earlier runs stay in the cache: the order the strategy
\* submits in this run is the next one
PlanOfRun(w, orders, data) ==
    [data |-> data,
     orders |-> [i \in 1..Len(w.cache.orders) |-> [order_type |-> "MARKET",
                                                   order_side |-> "BUY",
                                                   window |-> "on_start"]]
                \o orders]

\* run() is entered: its local variables are fresh, the engines are as the
\* earlier calls left them
BeginRun(w, n_data) ==
    [w EXCEPT !.drv.pc = "on_start",
              !.drv.data = << >>,
              !.drv.fill_id = 0,
              !.drv.fill = None,
              !.drv.idx = 0,
              !.drv.orders_to_remove = << >>,
              !.drv.position_event = "",
              !.drv.steps = << >>,
              !.drv.n_data = n_data,
              !.drv.starting_balance = 0,
              !.drv.balance_curve = << >>]

\* BacktestEngine.run to its return or to the exception that ends it
RECURSIVE RunToEnd(_, _)
RunToEnd(w, plan) == IF ~Running(w) THEN w ELSE RunToEnd(RunStep(w, plan), plan)

\* self._result after run(): the new report, or the old value when run raised
ResultAfter(w, result) == IF Crashed(w) THEN result ELSE Some(Report(w))

\* dispose(): self._exchanges.clear(). Later runs reach no exchange: no bar is
\* matched and the total balance and the commissions are sums over no venue,
\* which is the behaviour of a venue without resting orders whose account
\* has no balance.
Dispose(w) ==
    [w EXCEPT !.exch.open_orders = << >>,
              !.exch.account = NewAccount(None, w.exch.currency_precision)]

InitResult ==
    /\ Is(EngineAtStart(0, 0, "NETTING", Instrument(1, 0, 1, None, None), TRUE,
                        Some(100000), 2))
    /\ chk = [data |-> << >>,
              log |-> << >>,
              before |-> None,
              result |-> None,
              strategies |-> 0,
              disposed |-> FALSE,
              got |-> ""]
    /\ IdleOrd
    /\ IdlePos

CallAllowed == Len(chk.log) < MaxResultCalls

AddStrategyCall ==
    /\ chk.strategies = 0
    /\ ~chk.disposed
    /\ chk' = [chk EXCEPT !.strategies = 1, !.log = Append(@, "add_strategy")]
    /\ CallAllowed
    /\ UNCHANGED <<varsOrd, varsPos, varsEng>>

AddDataCall ==
    /\ chk.data = << >>
    /\ chk' = [chk EXCEPT !.data = << Bar(1, 10, 10, 10, 1, 1) >>,
                          !.log = Append(@, "add_data")]
    /\ CallAllowed
    /\ UNCHANGED <<varsOrd, varsPos, varsEng>>

RunOf(w, orders, data) == RunToEnd(BeginRun(w, Len(data)), PlanOfRun(w, orders, data))

RunDone(ran, orders) ==
    /\ Becomes(ran)
    /\ chk' = [chk EXCEPT !.result = ResultAfter(ran, @),
                          !.log = Append(@, IF Crashed(ran) THEN "run raised" ELSE "run"),
                          !.before = Some([positions |-> Len(cache.positions),
                                           orders |-> Len(cache.orders),
                                           fills |-> Report(World).total_fills,
                                           submitted |-> Len(orders)])]

RunCall ==
    \E orders \in ResultPlans :
        /\ chk.strategies = 0 => orders = << >>
        /\ CallAllowed
        /\ RunDone(RunOf(World, orders, chk.data), orders)
        /\ UNCHANGED <<varsOrd, varsPos>>

ResetCall ==
    /\ chk' = [chk EXCEPT !.result = None, !.data = << >>,
                          !.log = Append(@, "reset")]
    /\ CallAllowed
    /\ UNCHANGED <<varsOrd, varsPos, varsEng>>

DisposeCall ==
    /\ chk' = [chk EXCEPT !.result = None, !.strategies = 0, !.data = << >>,
                          !.disposed = TRUE, !.log = Append(@, "dispose")]
    /\ CallAllowed
    /\ Becomes(Dispose(World))
    /\ UNCHANGED <<varsOrd, varsPos>>

GetResultCall ==
    /\ chk' = [chk EXCEPT !.got = IF chk.result = None THEN "RuntimeError"
                                  ELSE "returned",
                          !.log = Append(@, "get_result")]
    /\ CallAllowed
    /\ UNCHANGED <<varsOrd, varsPos, varsEng>>

NextResult ==
    \/ AddStrategyCall
    \/ AddDataCall
    \/ RunCall
    \/ ResetCall
    \/ DisposeCall
    \/ GetResultCall

SpecResult == InitResult /\ [][NextResult]_vars

(***************************************************************************)
(* Claims about get_result and empty runs (SpecResult).                    *)
(***************************************************************************)
LastCall == chk'.log[Len(chk'.log)]

Calls(name) == Len(chk'.log) = Len(chk.log) + 1 /\ LastCall = name

\* a run has completed since the engine was created, reset or disposed
RunCompletedSince(log) ==
    \E i \in DOMAIN log :
        /\ log[i] = "run"
        /\ \A j \in (i + 1)..Len(log) : log[j] \notin {"reset", "dispose"}

\* get_result raises exactly when no run has completed since the engine was
\* created, reset or disposed, and otherwise returns the report the latest
\* completed run built
GetResultFollowsRuns ==
    /\ Calls("get_result") =>
         /\ chk'.got = (IF RunCompletedSince(chk.log) THEN "returned" ELSE "RuntimeError")
         /\ chk'.result = chk.result
    /\ Calls("run") => chk'.result = Some(Report(WorldNext))
    /\ Calls("run raised") => chk'.result = chk.result

\* the run just made had no registered strategy or no data
EmptyRun ==
    /\ Len(chk'.log) = Len(chk.log) + 1
    /\ LastCall \in {"run", "run raised"}
    /\ chk.strategies = 0 \/ chk.data = << >>

\* C27 as stated: get_result raises when no run has completed since the
\* engine was created, reset or disposed and returns the result of the most
\* recent run otherwise; a run with no registered strategies or with no data
\* completes without error and reports zero orders, zero positions, zero
\* fills and an ending balance equal to the starting balance.
C27_GetResultAndZeroedReport ==
    [][/\ GetResultFollowsRuns
       /\ EmptyRun =>
            /\ LastCall = "run"
            /\ chk'.result[1].total_orders = 0
            /\ chk'.result[1].total_positions = 0
            /\ chk'.result[1].total_fills = 0
            /\ chk'.result[1].ending_balance = chk'.result[1].starting_balance]_vars

\* what does hold: get_result as stated; a run with no registered strategies
\* or with no data completes without error, fills nothing, touches no
\* position and ends with the balance it started with, and its report counts
\* every order, position and filled order the cache holds, those of earlier
\* runs and the orders on_start has submitted included
C27_GetResultAndEmptyRunAddsNoFill ==
    [][/\ GetResultFollowsRuns
       /\ EmptyRun =>
            /\ LastCall = "run"
            /\ chk'.result[1].total_orders = chk'.before[1].orders + chk'.before[1].submitted
            /\ chk'.result[1].total_positions = chk'.before[1].positions
            /\ chk'.result[1].total_fills = chk'.before[1].fills
            /\ cache'.positions = cache.positions
            /\ chk'.result[1].ending_balance = chk'.result[1].starting_balance]_vars

\* after a run with a fill and dispose(), a run with no strategies and no
\* data has reported the order, the position and the fill of the earlier run
C27_EmptyRunReportsEarlierRun ==
    /\ chk.log = << "add_strategy", "add_data", "run", "dispose", "run" >>
    /\ chk.result # None
    /\ chk.result[1].total_orders = 1
    /\ chk.result[1].total_positions = 1
    /\ chk.result[1].total_fills = 1


(***************************************************************************)
(* SpecFactory: one strategy's OrderFactory, its four constructors and     *)
(* reset.  Identifiers are the characters of the formatted string.         *)
(***************************************************************************)
MaxFactoryCalls == 5

StrategyIdSet == {<<"S", "1">>, <<"S", "-", "1">>}

DigitChar(d) ==
    CASE d = 0 -> "0" [] d = 1 -> "1" [] d = 2 -> "2" [] d = 3 -> "3"
      [] d = 4 -> "4" [] d = 5 -> "5" [] d = 6 -> "6" [] d = 7 -> "7"
      [] d = 8 -> "8" [] OTHER -> "9"

\* str(n) of a non-negative integer
RECURSIVE DecimalDigits(_)
DecimalDigits(n) ==
    IF n < 10 THEN <<DigitChar(n)>>
    ELSE Append(DecimalDigits(n \div 10), DigitChar(n % 10))

\* f"O-{self.strategy_id.value}-{self._counter}"
FormatOrderId(strategy_id, counter) ==
    <<"O", "-">> \o strategy_id \o <<"-">> \o DecimalDigits(counter)

\* _next_order_id: the counter advanced and the identifier made of it
NextOrderId(f) ==
    [id |-> FormatOrderId(f.strategy_id, f.counter + 1),
     factory |-> [f EXCEPT !.counter = @ + 1]]

\* OrderFactory.reset
FactoryReset(f) == [f EXCEPT !.counter = 0]

InitFactory ==
    /\ \E strategy_id \in StrategyIdSet :
         chk = [log |-> << >>,
                factory |-> [strategy_id |-> strategy_id, counter |-> 0]]
    /\ IdleOrd
    /\ IdlePos
    /\ IdleEng

\* the factory and the log after a constructor has returned an order with
\* the next identifier
Constructed(order_type, made) ==
    [log |-> Append(chk.log, [client_order_id |-> made.id, call |-> order_type]),
     factory |-> made.factory]

MarketCall ==
    /\ Len(chk.log) < MaxFactoryCalls
    /\ chk' = Constructed("MARKET", NextOrderId(chk.factory))
    /\ UNCHANGED <<varsOrd, varsPos, varsEng>>

LimitCall ==
    /\ Len(chk.log) < MaxFactoryCalls
    /\ chk' = Constructed("LIMIT", NextOrderId(chk.factory))
    /\ UNCHANGED <<varsOrd, varsPos, varsEng>>

StopMarketCall ==
    /\ Len(chk.log) < MaxFactoryCalls
    /\ chk' = Constructed("STOP_MARKET", NextOrderId(chk.factory))
    /\ UNCHANGED <<varsOrd, varsPos, varsEng>>

StopLimitCall ==
    /\ Len(chk.log) < MaxFactoryCalls
    /\ chk' = Constructed("STOP_LIMIT", NextOrderId(chk.factory))
    /\ UNCHANGED <<varsOrd, varsPos, varsEng>>

FactoryResetCall ==
    /\ Len(chk.log) < MaxFactoryCalls
    /\ chk' = [log |-> Append(chk.log, [client_order_id |-> << >>,
                                        call |-> "reset"]),
               factory |-> FactoryReset(chk.factory)]
    /\ UNCHANGED <<varsOrd, varsPos, varsEng>>

NextFactory ==
    MarketCall \/ LimitCall \/ StopMarketCall \/ StopLimitCall \/ FactoryResetCall

SpecFactory == InitFactory /\ [][NextFactory]_vars

(***************************************************************************)
(* Claims about the order factory (SpecFactory).                           *)
(***************************************************************************)
Created == {k \in DOMAIN chk.log : chk.log[k].call # "reset"}

HasForm(id) ==
    \E n \in 1..(MaxFactoryCalls + 1) : id = FormatOrderId(chk.factory.strategy_id, n)

\* the n of an identifier of the form O-{strategy_id}-{n}
NumberOf(id) ==
    CHOOSE n \in 1..(MaxFactoryCalls + 1) : id = FormatOrderId(chk.factory.strategy_id, n)

ResetBetween(i, j) == \E k \in (i + 1)..(j - 1) : chk.log[k].call = "reset"

\* C28: every order the factory has created carries O-{strategy_id}-{n}, n
\* strictly increases from one created order to the next, and the
\* identifiers are pairwise distinct.
C28_IdsIncreaseAndAreDistinct ==
    /\ \A k \in Created : HasForm(chk.log[k].client_order_id)
    /\ \A i, j \in Created :
         i < j => /\ NumberOf(chk.log[i].client_order_id) < NumberOf(chk.log[j].client_order_id)
                  /\ chk.log[i].client_order_id # chk.log[j].client_order_id

\* C28, what the factory keeps: every identifier has the form, and between
\* two orders created with no reset between them n increases by one per
\* order, so those identifiers are distinct; the first order after a reset
\* carries n = 1 again.
C28_IdsIncreaseBetweenResets ==
    /\ \A k \in Created : HasForm(chk.log[k].client_order_id)
    /\ \A i, j \in Created :
         (i < j /\ ~ResetBetween(i, j)) =>
             /\ NumberOf(chk.log[j].client_order_id) = NumberOf(chk.log[i].client_order_id) + (j - i)
             /\ chk.log[i].client_order_id # chk.log[j].client_order_id
    /\ \A k \in Created :
         (k > 1 /\ chk.log[k - 1].call = "reset") => NumberOf(chk.log[k].client_order_id) = 1

\* market(), reset(), market(): the two orders carry the same identifier
C28_SameIdAfterReset ==
    /\ Len(chk.log) = 3
    /\ chk.log[1].call = "MARKET"
    /\ chk.log[2].call = "reset"
    /\ chk.log[3].call = "MARKET"
    /\ chk.log[1].client_order_id = chk.log[3].client_order_id


(***************************************************************************)
(* SpecModify: a run in which one order of a priced type rests on the      *)
(* exchange from on_start and the strategy modifies it from its callbacks. *)
(***************************************************************************)
MaxModifies == 2

\* ExecutionEngine.process_event for an event that is not a fill: of these
\* only OrderAccepted, OrderRejected and OrderCanceled reach
\* _handle_order_event, and no branch takes any other event
ProcessEvent(w, id, e) ==
    IF e.type \in {"OrderAccepted", "OrderRejected", "OrderCanceled"}
    THEN HandleOrderEvent(w, id, e)
    ELSE w

\* Strategy.modify_order -> ExecutionEngine.modify_order ->
\* SimulatedExchange.modify_order: the venue makes an OrderUpdated event
\* stamped with the order's ts_last and hands it to process_event
ModifyOrder(w, id, quantity, qprec, price, trigger_price) ==
    ProcessEvent(w, id, UpdatedEvent(w.cache.orders[id].ts_last, quantity,
                                     qprec, price, trigger_price))

RestingTypes == {"LIMIT", "STOP_MARKET", "STOP_LIMIT"}

NoModify ==
    [n |-> 0,
     id |-> 0,
     price |-> None,
     quantity |-> None,
     trigger_price |-> None,
     bar_no |-> 0]

InitModify ==
    /\ \E type \in RestingTypes, side \in OrderSides, px \in PxSet :
         Is(StrategySubmit(EngineAtStart(MaxBars, 0, "NETTING",
                                         Instrument(1, 0, 1, None, None), TRUE,
                                         Some(100000), 2),
                           type, side, 1, 10, 0, px, 1, px))
    /\ chk = NoModify
    /\ IdleOrd
    /\ IdlePos

\* the strategy modifies its order from a callback: any of a new quantity, a
\* new price and a new trigger price
StrategyModifyOrder ==
    \E id \in DOMAIN cache.orders, quantity \in {None, Some(20)},
       price \in {None} \cup {Some(p) : p \in PxSet},
       trigger_price \in {None} \cup {Some(p) : p \in PxSet} :
        /\ InWindow
        /\ chk.n < MaxModifies
        /\ <<quantity, price, trigger_price>> # <<None, None, None>>
        /\ Becomes(ModifyOrder(World, id, quantity, 0, price, trigger_price))
        /\ chk' = [n |-> chk.n + 1,
                   id |-> id,
                   price |-> price,
                   quantity |-> quantity,
                   trigger_price |-> trigger_price,
                   bar_no |-> Len(drv.data)]
        /\ UNCHANGED <<varsOrd, varsPos>>

NextModify ==
    \/ StrategyModifyOrder
    \/ OnStartReturn
    \/ NextDatum
    \/ SetTime
    \/ AdvanceTime
    \/ MatchStep
    \/ OrderEventReturn
    \/ PositionEventReturn
    \/ MatchEnd
    \/ PublishBar
    \/ OnBarReturn
    \/ RecordBalance
    \/ Finish

SpecModify == InitModify /\ [][NextModify]_vars

(***************************************************************************)
(* Claims about modify_order (SpecModify).                                 *)
(***************************************************************************)
\* modify_order has just been called on an order resting on the exchange
ModifiedResting ==
    /\ chk'.n = chk.n + 1
    /\ InSeq(exch.open_orders, chk'.id)
    /\ cache.orders[chk'.id].status = "ACCEPTED"

UpdatedPublished(published) ==
    Cardinality({k \in DOMAIN published : published[k].type = "OrderUpdated"})

\* C29: after modify_order on a resting order the OrderUpdated event is
\* applied (new quantity with leaves_qty = quantity - filled_qty, new price
\* and trigger price, status ACCEPTED) and published to the strategy.
C29_ModifyAppliesAndPublishesUpdate ==
    [][ModifiedResting =>
        LET c == chk'
            o == cache'.orders[c.id]
        IN  /\ c.quantity # None =>
                  /\ o.quantity = c.quantity[1]
                  /\ o.leaves_qty = c.quantity[1] - o.filled_qty
            /\ (c.price # None /\ o.order_type \in {"LIMIT", "STOP_LIMIT"}) =>
                  o.price = c.price
            /\ (c.trigger_price # None
                /\ o.order_type \in {"STOP_MARKET", "STOP_LIMIT"}) =>
                  o.trigger_price = c.trigger_price
            /\ o.status = "ACCEPTED"
            /\ UpdatedPublished(hist'[c.id].published)
                   = UpdatedPublished(hist[c.id].published) + 1]_vars

\* C29, what the engine does: modify_order on a resting order leaves the
\* order, the cache, the exchange and what was published as they were, and no
\* OrderUpdated event is ever published.
C29_ModifyChangesNothing ==
    [][/\ ModifiedResting => WorldNext = World
       /\ \A id \in DOMAIN hist' : UpdatedPublished(hist'[id].published) = 0]_vars

\* a BUY limit order at 5 was modified to 10 before the first bar; both bars
\* traded down to 10 and no lower, and at the end of the run the order still
\* rests unfilled with its price of 5
C29_ModifiedOrderMatchedAtOldPrice ==
    /\ drv.pc = "done"
    /\ chk.n = 1
    /\ chk.bar_no = 0
    /\ chk.price = Some(10)
    /\ cache.orders[1].order_type = "LIMIT"
    /\ cache.orders[1].side = "BUY"
    /\ cache.orders[1].price = Some(5)
    /\ cache.orders[1].status = "ACCEPTED"
    /\ cache.orders[1].filled_qty = 0
    /\ \A k \in DOMAIN drv.data : drv.data[k].instrument_id = 1 /\ drv.data[k].low = 10


(***************************************************************************)
(* SpecCancel: a run in which the strategy submits orders and cancels any  *)
(* order it has submitted, resting or not, from any of its callbacks.      *)
(***************************************************************************)
MaxCancels == 2

NoCancel == [n |-> 0, id |-> 0, status |-> "", pc |-> "", resting |-> FALSE]

InitCancel ==
    /\ Is(EngineAtStart(MaxBars, 0, "NETTING", Instrument(1, 0, 1, None, None),
                        TRUE, Some(100000), 2))
    /\ chk = NoCancel
    /\ IdleOrd
    /\ IdlePos

\* what the strategy submits: a market order or a BUY limit order at the
\* lowest bar price for instrument 1, or a market order for an instrument the
\* cache does not know
CancelSubmissions ==
    {<<"MARKET", "BUY", 1>>, <<"MARKET", "SELL", 1>>, <<"LIMIT", "BUY", 1>>,
     <<"MARKET", "BUY", 2>>}

CancelSubmitOrder ==
    \E s \in CancelSubmissions :
        /\ InWindow
        /\ Len(cache.orders) < MaxOrders
        /\ Becomes(StrategySubmit(World, s[1], s[2], s[3], 10, 0, 5, 1, 5))
        /\ UNCHANGED <<varsOrd, varsPos, varsChk>>

\* Strategy.cancel_order -> ExecutionEngine.cancel_order ->
\* SimulatedExchange.cancel_order, for any order the strategy holds
CancelCall ==
    \E id \in DOMAIN cache.orders :
        /\ InWindow
        /\ chk.n < MaxCancels
        /\ Becomes(CancelOrder(World, id))
        /\ chk' = [n |-> chk.n + 1,
                   id |-> id,
                   status |-> cache.orders[id].status,
                   pc |-> drv.pc,
                   resting |-> InSeq(exch.open_orders, id)]
        /\ UNCHANGED <<varsOrd, varsPos>>

NextCancel ==
    \/ CancelSubmitOrder
    \/ CancelCall
    \/ OnStartReturn
    \/ NextDatum
    \/ SetTime
    \/ AdvanceTime
    \/ MatchStep
    \/ OrderEventReturn
    \/ PositionEventReturn
    \/ MatchEnd
    \/ PublishBar
    \/ OnBarReturn
    \/ RecordBalance
    \/ Finish

SpecCancel == InitCancel /\ [][NextCancel]_vars

(***************************************************************************)
(* Claims about cancel_order (SpecCancel).                                 *)
(***************************************************************************)
CancelCalled == chk'.n = chk.n + 1

CanceledPublished(published) ==
    Cardinality({k \in DOMAIN published : published[k].type = "OrderCanceled"})

\* the order left the resting set, is CANCELED, and one more OrderCanceled
\* was published on its strategy's topic
CancelTookEffect(id) ==
    /\ ~InSeq(exch'.open_orders, id)
    /\ cache'.orders[id].status = "CANCELED"
    /\ CanceledPublished(hist'[id].published)
           = CanceledPublished(hist[id].published) + 1
    /\ drv'.pc = drv.pc

\* a CANCELED order stays as it is: no later bar fills it
CanceledStays ==
    \A id \in DOMAIN cache.orders :
        cache.orders[id].status = "CANCELED" =>
            /\ cache'.orders[id] = cache.orders[id]
            /\ ~InSeq(exch'.open_orders, id)

\* C30: cancel_order on a resting open order removes it from the resting
\* set, makes it CANCELED and publishes OrderCanceled, and the order is never
\* filled later; cancel_order on an order that is not resting or no longer
\* open, from any callback, changes nothing, emits nothing and raises
\* nothing.
C30_CancelRestingElseNothing ==
    [][/\ CancelCalled =>
            IF chk'.resting /\ is_open(cache.orders[chk'.id])
            THEN CancelTookEffect(chk'.id)
            ELSE WorldNext = World
       /\ CanceledStays]_vars

\* C30, what the exchange does: the test is membership in its list of
\* resting orders alone.  An order in the list that is open is canceled as
\* the claim says; an order not in the list is left alone; an order that is
\* still in the list although it is no longer open (the order whose fill is
\* being reported) is taken off the list and the cancel raises.
C30_CancelGoesByTheRestingList ==
    [][/\ CancelCalled =>
            LET id == chk'.id
            IN  IF ~chk'.resting THEN WorldNext = World
                ELSE IF is_open(cache.orders[id]) THEN CancelTookEffect(id)
                ELSE /\ drv'.pc = "crashed"
                     /\ ~InSeq(exch'.open_orders, id)
                     /\ cache'.orders[id].status = cache.orders[id].status
       /\ CanceledStays]_vars

\* the strategy canceled, from on_order_filled, the order whose fill was
\* being reported: the order was FILLED and still on the exchange's list,
\* and the cancel raised
C30_CancelInFillCallbackRaised ==
    /\ drv.pc = "crashed"
    /\ chk.n = 1
    /\ chk.pc = "order_event"
    /\ chk.resting
    /\ chk.status = "FILLED"
    /\ cache.orders[chk.id].status = "FILLED"


(***************************************************************************)
(* SpecSkip: a run in which up to three orders rest on the exchange and    *)
(* the strategy submits and cancels from every callback, the callbacks of  *)
(* a bar's matching included.                                              *)
(***************************************************************************)
MaxSkipOrders == 3

InitSkip ==
    /\ Is(EngineAtStart(MaxBars, 0, "NETTING", Instrument(1, 0, 1, None, None),
                        TRUE, Some(100000), 2))
    /\ IdleOrd
    /\ IdlePos
    /\ IdleChk

\* the strategy submits a BUY order for instrument 1: at market, or with a
\* limit at the lowest bar price
SkipSubmitOrder ==
    \E type \in {"MARKET", "LIMIT"} :
        /\ InWindow
        /\ Len(cache.orders) < MaxSkipOrders
        /\ Becomes(StrategySubmit(World, type, "BUY", 1, 10, 0, 5, 1, 5))
        /\ UNCHANGED <<varsOrd, varsPos, varsChk>>

\* the strategy cancels one of its resting orders
SkipCancelOrder ==
    \E id \in DOMAIN cache.orders :
        /\ InWindow
        /\ InSeq(exch.open_orders, id)
        /\ Becomes(CancelOrder(World, id))
        /\ UNCHANGED <<varsOrd, varsPos, varsChk>>

NextSkip ==
    \/ SkipSubmitOrder
    \/ SkipCancelOrder
    \/ OnStartReturn
    \/ NextDatum
    \/ SetTime
    \/ AdvanceTime
    \/ MatchStep
    \/ OrderEventReturn
    \/ PositionEventReturn
    \/ MatchEnd
    \/ PublishBar
    \/ OnBarReturn
    \/ RecordBalance
    \/ Finish

SpecSkip == InitSkip /\ [][NextSkip]_vars

(***************************************************************************)
(* Claims about the matching loop (SpecSkip).                              *)
(***************************************************************************)
\* the order was accepted before the matching of bar k started
RestingAtStartOf(id, k) ==
    /\ hist[id].accepted
    /\ \/ hist[id].bar < k
       \/ hist[id].bar = k /\ hist[id].window = "timer_cb"

\* the order was open through the whole matching of bar k: it is open now,
\* or its fill came with bar k or a later bar
OpenThrough(id, k) ==
    \/ is_open(cache.orders[id])
    \/ \E j \in DOMAIN hist[id].fills : hist[id].fills[j].bar >= k

EvalsAt(id, k) == {j \in DOMAIN hist[id].evals : hist[id].evals[j] = k}

\* bar k was for the order's instrument, its matching has returned, and the
\* order rested from before it and was open through it
EligibleFor(id, k) ==
    /\ Matched(k)
    /\ drv.data[k].instrument_id = cache.orders[id].instrument_id
    /\ RestingAtStartOf(id, k)
    /\ OpenThrough(id, k)

\* C31: every order that was resting for the bar's instrument when matching
\* started and is still open when its turn comes is evaluated against the bar
\* exactly once, whatever the callbacks of earlier fills cancel or submit.
C31_NoEligibleOrderIsSkipped ==
    \A id \in DOMAIN cache.orders, k \in DOMAIN drv.data :
        /\ Cardinality(EvalsAt(id, k)) <= 1
        /\ EligibleFor(id, k) => Cardinality(EvalsAt(id, k)) = 1

NoneCanceled == \A id \in DOMAIN cache.orders : cache.orders[id].status # "CANCELED"

\* C31, what the loop keeps: no order is evaluated twice against one bar, and
\* as long as the strategy has canceled nothing no eligible order is skipped,
\* whatever it submits from the callbacks.
C31_NoOrderTwiceAndNoneSkippedWithoutCancel ==
    \A id \in DOMAIN cache.orders, k \in DOMAIN drv.data :
        /\ Cardinality(EvalsAt(id, k)) <= 1
        /\ (NoneCanceled /\ EligibleFor(id, k)) => Cardinality(EvalsAt(id, k)) = 1

\* three orders rested when bar 1 was matched; the second was filled, the
\* first was canceled in that fill's callback, and the third, still open, was
\* not evaluated against bar 1
C31_ThirdOrderSkipped ==
    /\ Len(cache.orders) = 3
    /\ Matched(1)
    /\ \A id \in 1..3 : hist[id].bar = 0 /\ hist[id].accepted
    /\ cache.orders[1].status = "CANCELED"
    /\ hist[2].fills # << >>
    /\ hist[2].fills[1].bar = 1
    /\ is_open(cache.orders[3])
    /\ hist[3].evals = << >>
    /\ drv.data[1].instrument_id = 1


(***************************************************************************)
(* Claims about what on_order_filled sees (checked under Spec).            *)
(***************************************************************************)
\* on_order_filled is running for a fill of a positive quantity
InFillCallback == drv.pc = "order_event" /\ drv.fill[1].last_qty > 0

\* the record of the fill being reported
ReportedFill == hist[drv.fill_id].fills[Len(hist[drv.fill_id].fills)]

\* cache.order(id): the order carries the fill
OrderReflectsFill ==
    LET o == cache.orders[drv.fill_id]
    IN  /\ o.status = "FILLED"
        /\ o.filled_qty = o.quantity
        /\ o.events[Len(o.events)].type = "OrderFilled"

\* portfolio.balance_free: the balance the fill posted
BalanceReflectsFill ==
    /\ BalanceFree(exch.account) = ReportedFill.balance_after
    /\ ReportedFill.balance_after # ReportedFill.balance_before

\* cache.positions / portfolio.net_position: the positions are what the
\* position flow of this fill leaves
PositionReflectsFill ==
    /\ cache.positions = HandleFillPosition(World).cache.positions
    /\ NetPosition(cache, cache.orders[drv.fill_id].instrument_id)
          = NetPosition(HandleFillPosition(World).cache,
                        cache.orders[drv.fill_id].instrument_id)

\* C32: when on_order_filled runs, the order, the account balance and the
\* position affected by the fill have all been updated already.
C32_CallbackSeesOrderBalanceAndPosition ==
    InFillCallback =>
        /\ OrderReflectsFill
        /\ BalanceReflectsFill
        /\ PositionReflectsFill

\* C32, what the callback sees: the order and the balance carry the fill, the
\* positions do not yet; they change when the callback has returned.
C32_CallbackSeesOrderAndBalanceButOldPosition ==
    InFillCallback =>
        /\ OrderReflectsFill
        /\ BalanceReflectsFill
        /\ cache.positions # HandleFillPosition(World).cache.positions

\* on_order_filled runs for the first BUY fill of the run: the order is
\* FILLED, the balance has been debited, and there is no position yet
C32_CallbackBeforeFirstPosition ==
    /\ InFillCallback
    /\ drv.fill[1].order_side = "BUY"
    /\ cache.orders[drv.fill_id].status = "FILLED"
    /\ ReportedFill.balance_after[1] < ReportedFill.balance_before[1]
    /\ cache.positions = << >>
    /\ NetPosition(cache, 1) = 0


(***************************************************************************)
(* SpecMulti: a run with two strategies trading one instrument; either     *)
(* submits orders and calls cancel_all_orders and close_all_positions      *)
(* from its callbacks.                                                     *)
(***************************************************************************)
MaxMultiOrders == 3

MaxMultiCalls == 2

StrategyIds == {1, 2}

AllIds(s) == [k \in 1..Len(s) |-> k]

\* Cache.orders(instrument_id, strategy_id), as client order ids: the
\* instrument's index list when an instrument is given, else the strategy's
\* when a strategy is given, else every order of the store
CacheOrders(c, instrument_id, strategy_id) ==
    IF instrument_id # None
    THEN SelectSeq(c.index, LAMBDA id : c.orders[id].instrument_id = instrument_id[1])
    ELSE IF strategy_id # None
    THEN SelectSeq(c.index, LAMBDA id : c.orders[id].strategy_id = strategy_id[1])
    ELSE AllIds(c.orders)

\* Cache.orders_open
CacheOrdersOpen(c, instrument_id, strategy_id) ==
    SelectSeq(CacheOrders(c, instrument_id, strategy_id),
              LAMBDA id : is_open(c.orders[id]))

\* Cache.positions(instrument_id, strategy_id), as position ids
CachePositions(c, instrument_id, strategy_id) ==
    IF instrument_id # None
    THEN SelectSeq(AllIds(c.positions),
                   LAMBDA pid : c.positions[pid].instrument_id = instrument_id[1])
    ELSE IF strategy_id # None
    THEN SelectSeq(AllIds(c.positions),
                   LAMBDA pid : c.positions[pid].strategy_id = strategy_id[1])
    ELSE AllIds(c.positions)

\* Cache.positions_open
CachePositionsOpen(c, instrument_id, strategy_id) ==
    SelectSeq(CachePositions(c, instrument_id, strategy_id),
              LAMBDA pid : position_is_open(c.positions[pid]))

\* strategy `strat` builds an order with its factory and submits it
StrategySubmitBy(w, strat, type, side, instr, qty, qprec, price, ts_init) ==
    LET id == Len(w.cache.orders) + 1
        o == NewOrder(id, strat, instr, type, side, qty, qprec,
                      IF type = "LIMIT" THEN Some(price) ELSE None, 1, None,
                      0, ts_init)
    IN  SubmitOrder([w EXCEPT !.cache.orders = Append(@, o),
                              !.hist = Append(@, [published |-> << >>,
                                                  accepted |-> FALSE,
                                                  fills |-> << >>,
                                                  bar |-> BarNo(w),
                                                  evals |-> << >>,
                                                  reason |-> "",
                                                  window |-> w.drv.pc])],
                    id)

\* cancel_all_orders: `for order in orders_open(...): self.cancel_order(order)`
RECURSIVE CancelEach(_, _, _)
CancelEach(w, ids, i) ==
    IF i > Len(ids) \/ Crashed(w) THEN w
    ELSE CancelEach(CancelOrder(w, ids[i]), ids, i + 1)

\* Strategy.cancel_all_orders(instrument_id)
CancelAllOrders(w, strat, instr) ==
    CancelEach(w, CacheOrdersOpen(w.cache, Some(instr), Some(strat)), 1)

\* Strategy.close_position: a market order of the opposite side for the
\* position's quantity, built by the caller's factory with ts_init 0
ClosePosition(w, strat, p) ==
    IF ~position_is_open(p) THEN w
    ELSE StrategySubmitBy(w, strat, "MARKET",
                          IF p.side = "LONG" THEN "SELL" ELSE "BUY",
                          p.instrument_id, p.quantity, p.qty_precision, 0, 0)

\* close_all_positions: `for pos in positions_open(...): self.close_position(pos)`
RECURSIVE CloseEach(_, _, _, _)
CloseEach(w, strat, pids, i) ==
    IF i > Len(pids) \/ Crashed(w) THEN w
    ELSE CloseEach(ClosePosition(w, strat, w.cache.positions[pids[i]]),
                   strat, pids, i + 1)

\* Strategy.close_all_positions(instrument_id)
CloseAllPositions(w, strat, instr) ==
    CloseEach(w, strat, CachePositionsOpen(w.cache, Some(instr), Some(strat)), 1)

NoMultiCall == [n |-> 0, strategy_id |-> 0, call |-> ""]

InitMulti ==
    /\ Is(EngineAtStart(MaxBars, 0, "NETTING", Instrument(1, 0, 1, None, None),
                        TRUE, Some(100000), 2))
    /\ chk = NoMultiCall
    /\ IdleOrd
    /\ IdlePos

\* either strategy submits a BUY order for instrument 1: at market, or with
\* a limit below every bar
MultiSubmitOrder ==
    \E strat \in StrategyIds,
       s \in {<<"MARKET", "BUY">>, <<"LIMIT", "BUY">>} :
        /\ InWindow
        /\ Len(cache.orders) < MaxMultiOrders
        /\ Becomes(StrategySubmitBy(World, strat, s[1], s[2], 1, 10, 0, 5,
                                    drv.clock))
        /\ UNCHANGED <<varsOrd, varsPos, varsChk>>

CancelAllOrdersCall ==
    \E strat \in StrategyIds :
        /\ InWindow
        /\ chk.n < MaxMultiCalls
        /\ Becomes(CancelAllOrders(World, strat, 1))
        /\ chk' = [n |-> chk.n + 1,
                   strategy_id |-> strat,
                   call |-> "cancel_all_orders"]
        /\ UNCHANGED <<varsOrd, varsPos>>

CloseAllPositionsCall ==
    \E strat \in StrategyIds :
        /\ InWindow
        /\ chk.n < MaxMultiCalls
        /\ Len(cache.orders) < MaxMultiOrders
        /\ Becomes(CloseAllPositions(World, strat, 1))
        /\ chk' = [n |-> chk.n + 1,
                   strategy_id |-> strat,
                   call |-> "close_all_positions"]
        /\ UNCHANGED <<varsOrd, varsPos>>

\* the next bar: instrument 1 trades at 10
MultiNextDatum ==
    /\ drv.pc = "next_datum"
    /\ Len(drv.data) < drv.n_data
    /\ Becomes(DoNextDatum(World, Bar(1, 10, 10, 10, 1, Len(drv.data) + 1)))
    /\ UNCHANGED <<varsOrd, varsPos, varsChk>>

NextMulti ==
    \/ MultiSubmitOrder
    \/ CancelAllOrdersCall
    \/ CloseAllPositionsCall
    \/ OnStartReturn
    \/ MultiNextDatum
    \/ SetTime
    \/ AdvanceTime
    \/ MatchStep
    \/ OrderEventReturn
    \/ PositionEventReturn
    \/ MatchEnd
    \/ PublishBar
    \/ OnBarReturn
    \/ RecordBalance
    \/ Finish

SpecMulti == InitMulti /\ [][NextMulti]_vars


(***************************************************************************)
(* Claims about cancel_all_orders and close_all_positions (SpecMulti).     *)
(***************************************************************************)
SeqToSet(s) == {s[k] : k \in DOMAIN s}

\* the orders of the cache that match both the instrument and the strategy
OrdersOfBoth(c, instr, strat) ==
    {id \in DOMAIN c.orders :
        c.orders[id].instrument_id = instr /\ c.orders[id].strategy_id = strat}

PositionsOfBoth(c, instr, strat) ==
    {pid \in DOMAIN c.positions :
        c.positions[pid].instrument_id = instr /\ c.positions[pid].strategy_id = strat}

OpenOrdersOf(c, instr) ==
    {id \in DOMAIN c.orders : c.orders[id].instrument_id = instr /\ is_open(c.orders[id])}

OpenPositionsOf(c, instr) ==
    {pid \in DOMAIN c.positions :
        c.positions[pid].instrument_id = instr /\ position_is_open(c.positions[pid])}

Changed == {id \in DOMAIN cache.orders : cache'.orders[id] # cache.orders[id]}

Submitted == (DOMAIN cache'.orders) \ (DOMAIN cache.orders)

MultiCalled(call) == chk'.n = chk.n + 1 /\ chk'.call = call

\* C33: cancel_all_orders(instrument) cancels only open orders of the calling
\* strategy, close_all_positions(instrument) submits closing orders only for
\* the caller's own open positions, and cache queries given an instrument and
\* a strategy return exactly the entries matching both.
C33_OnlyTheCallersOrdersAndPositions ==
    [][/\ MultiCalled("cancel_all_orders") =>
            /\ \A id \in Changed : cache.orders[id].strategy_id = chk'.strategy_id
            /\ Submitted = {}
       /\ MultiCalled("close_all_positions") =>
            /\ Cardinality(Submitted) =
                  Cardinality(OpenPositionsOf(cache, 1)
                              \cap PositionsOfBoth(cache, 1, chk'.strategy_id))
            /\ Changed = {}
       /\ \A strat \in StrategyIds :
            /\ SeqToSet(CacheOrders(cache, Some(1), Some(strat)))
                  = OrdersOfBoth(cache, 1, strat) \cap SeqToSet(cache.index)
            /\ SeqToSet(CachePositions(cache, Some(1), Some(strat)))
                  = PositionsOfBoth(cache, 1, strat)]_vars

\* C33, what the calls do: the strategy filter is not applied when an
\* instrument is given.  cancel_all_orders cancels every open order of the
\* instrument, whoever submitted it; close_all_positions submits, in the
\* caller's name, one closing market order for every open position of the
\* instrument, whoever opened it; the query returns the instrument's entries.
C33_EveryOrderAndPositionOfTheInstrument ==
    [][/\ (MultiCalled("cancel_all_orders") /\ drv'.pc # "crashed") =>
            /\ Changed = OpenOrdersOf(cache, 1)
            /\ \A id \in Changed : cache'.orders[id].status = "CANCELED"
            /\ Submitted = {}
       /\ MultiCalled("close_all_positions") =>
            /\ Cardinality(Submitted) = Cardinality(OpenPositionsOf(cache, 1))
            /\ \A id \in Submitted :
                 /\ cache'.orders[id].strategy_id = chk'.strategy_id
                 /\ cache'.orders[id].order_type = "MARKET"
            /\ Changed = {}
       /\ \A strat \in StrategyIds :
            /\ SeqToSet(CacheOrders(cache, Some(1), Some(strat)))
                  = {id \in SeqToSet(cache.index) : cache.orders[id].instrument_id = 1}
            /\ SeqToSet(CachePositions(cache, Some(1), Some(strat)))
                  = {pid \in DOMAIN cache.positions :
                        cache.positions[pid].instrument_id = 1}]_vars

\* strategy 2 called cancel_all_orders and then close_all_positions: the
\* resting limit order of strategy 1 is CANCELED, and the position strategy 1
\* opened has been closed by an order of strategy 2
C33_OtherStrategysOrderCanceledAndPositionClosed ==
    /\ chk.n = 2
    /\ chk.call = "close_all_positions"
    /\ chk.strategy_id = 2
    /\ Len(cache.orders) = 3
    /\ cache.orders[1].strategy_id = 1
    /\ cache.orders[1].order_type = "LIMIT"
    /\ cache.orders[1].status = "CANCELED"
    /\ cache.orders[2].strategy_id = 1
    /\ cache.orders[3].strategy_id = 2
    /\ cache.orders[3].side = "SELL"
    /\ cache.orders[3].status = "FILLED"
    /\ Len(cache.positions) = 1
    /\ cache.positions[1].strategy_id = 1
    /\ position_is_closed(cache.positions[1])


(***************************************************************************)
(* SpecReduce: a run in which the trading state is set to REDUCING at some *)
(* point and the strategy goes on submitting market orders of one or two   *)
(* lots.                                                                   *)
(***************************************************************************)
MaxReduceOrders == 3

\* RiskEngine.set_trading_state
SetTradingState(w, state) == [w EXCEPT !.exec.trading_state = state]

InitReduce ==
    /\ Is(EngineAtStart(MaxBars, 0, "NETTING", Instrument(1, 0, 1, None, None),
                        TRUE, Some(100000), 2))
    /\ chk = [since |-> None]
    /\ IdleOrd
    /\ IdlePos

ReduceSubmitOrder ==
    \E side \in OrderSides, qty \in {10, 20} :
        /\ InWindow
        /\ Len(cache.orders) < MaxReduceOrders
        /\ Becomes(StrategySubmit(World, "MARKET", side, 1, qty, 0, 5, 1, 5))
        /\ UNCHANGED <<varsOrd, varsPos, varsChk>>

\* the trading state becomes REDUCING; the orders submitted from here on are
\* those with an id above the number of orders so far
SetReducing ==
    /\ InWindow
    /\ chk.since = None
    /\ Becomes(SetTradingState(World, "REDUCING"))
    /\ chk' = [since |-> Some(Len(cache.orders))]
    /\ UNCHANGED <<varsOrd, varsPos>>

NextReduce ==
    \/ ReduceSubmitOrder
    \/ SetReducing
    \/ OnStartReturn
    \/ MultiNextDatum
    \/ SetTime
    \/ AdvanceTime
    \/ MatchStep
    \/ OrderEventReturn
    \/ PositionEventReturn
    \/ MatchEnd
    \/ PublishBar
    \/ OnBarReturn
    \/ RecordBalance
    \/ Finish

SpecReduce == InitReduce /\ [][NextReduce]_vars

(***************************************************************************)
(* Claims about the REDUCING state (SpecReduce).                           *)
(***************************************************************************)
SubmittedWhileReducing(id) == chk.since # None /\ id > chk.since[1]

\* the position flow of a fill runs in this step
FillReachesPosition == drv.pc = "order_event" /\ drv'.pc = "position_event"

\* C34: no fill of an order submitted in the REDUCING state increases the
\* absolute net position of its instrument or flips its sign.
C34_ReducingFillNeverGrowsOrFlips ==
    [][(FillReachesPosition /\ SubmittedWhileReducing(drv.fill_id)) =>
        LET before == NetPosition(cache, 1)
            after == NetPosition(cache', 1)
        IN  /\ Abs(after) <= Abs(before)
            /\ before * after >= 0]_vars

\* the strategy has just submitted an order
JustSubmitted == Len(cache'.orders) = Len(cache.orders) + 1

\* C34, what the risk engine checks: an order submitted in the REDUCING state
\* is denied exactly when its side does not oppose the net position the
\* instrument has at that moment; its quantity, and the orders already
\* resting, play no part.
C34_ReducingChecksSideAtSubmission ==
    [][(JustSubmitted /\ exec.trading_state = "REDUCING") =>
        LET o == cache'.orders[Len(cache'.orders)]
            net == NetPosition(cache, 1)
        IN  (o.status = "DENIED") <=>
                ~(\/ o.side = "SELL" /\ net > 0
                  \/ o.side = "BUY" /\ net < 0)]_vars

\* long one lot, the state was set to REDUCING, a SELL of two lots was
\* accepted and filled: the instrument is net short one lot
C34_ReducingOrderFlippedThePosition ==
    /\ chk.since = Some(1)
    /\ Len(cache.orders) = 2
    /\ cache.orders[1].side = "BUY"
    /\ cache.orders[1].quantity = 10
    /\ cache.orders[2].side = "SELL"
    /\ cache.orders[2].quantity = 20
    /\ cache.orders[2].status = "FILLED"
    /\ drv.pc = "done"
    /\ NetPosition(cache, 1) = 0 - 10


(***************************************************************************)
(* Claims about the balance of a flat book (checked under Spec).           *)
(***************************************************************************)
AllFlat == \A pid \in DOMAIN cache.positions : cache.positions[pid].side = "FLAT"

\* the sum of realized_pnl over the first n positions, in hundredths
RECURSIVE SumRealizedPnl(_)
SumRealizedPnl(n) ==
    IF n = 0 THEN RZero
    ELSE RAdd(SumRealizedPnl(n - 1), cache.positions[n].realized_pnl)

\* (total balance - starting balance) and (realized pnl - commissions), both
\* in thousandths
BalanceChange == RInt(GetTotalBalance(World) - drv.starting_balance)

PnlNetOfCommissions ==
    RSub(RMul(RInt(10), SumRealizedPnl(Len(cache.positions))),
         RInt(exch.account.commissions))

\* the run has recorded its starting balance and has not raised
RunUnderWay == drv.pc \notin {"on_start", "crashed"}

\* C35: at every point where all positions are FLAT, total balance minus
\* starting balance equals the sum of realized_pnl over all positions minus
\* the accumulated commissions.
C35_FlatBalanceIsPnlMinusCommissions ==
    (RunUnderWay /\ AllFlat) => BalanceChange = PnlNetOfCommissions

\* C35, where the identity holds: at every point where all positions are
\* FLAT outside on_order_filled, whose fill has moved the balance and not yet
\* the position.
C35_FlatBalanceIsPnlMinusCommissionsOutsideFillCallback ==
    (RunUnderWay /\ AllFlat /\ drv.pc # "order_event")
        => BalanceChange = PnlNetOfCommissions

\* on_order_filled runs for a BUY that opens the first position: every
\* position is FLAT (there is none) and the balance is already down by the
\* notional and the commission
C35_FlatInFillCallbackWithBalanceMoved ==
    /\ drv.pc = "order_event"
    /\ cache.positions = << >>
    /\ drv.fill[1].order_side = "BUY"
    /\ exch.account.commissions > 0
    /\ GetTotalBalance(World) < drv.starting_balance - exch.account.commissions

\* a position was opened and closed at different prices and the book is flat
C35_FlatAfterRoundTrip ==
    /\ drv.pc = "done"
    /\ AllFlat
    /\ Len(cache.positions) = 1
    /\ cache.positions[1].realized_pnl # RZero
    /\ exch.account.commissions > 0


(***************************************************************************)
(* SpecCash: a run on a venue whose CASH account starts with less than the *)
(* strategy's orders cost.                                                 *)
(***************************************************************************)
\* number of orders the strategy submits in a run on the small account
MaxCashOrders == 3

\* starting balances of the small account, in thousandths
CashStartSet == {1000, 3000}

InitCash ==
    /\ \E starting \in CashStartSet :
         Is(EngineAtStart(MaxBars, 0, "NETTING", Instrument(1, 0, 1, None, None),
                          TRUE, Some(starting), 2))
    /\ IdleOrd
    /\ IdlePos
    /\ IdleChk

CashSubmitOrder ==
    \E side \in OrderSides, qty \in {10, 20} :
        /\ InWindow
        /\ Len(cache.orders) < MaxCashOrders
        /\ Becomes(StrategySubmit(World, "MARKET", side, 1, qty, 0, 5, 1, 5))
        /\ UNCHANGED <<varsOrd, varsPos, varsChk>>

NextCash ==
    \/ CashSubmitOrder
    \/ OnStartReturn
    \/ MultiNextDatum
    \/ SetTime
    \/ AdvanceTime
    \/ MatchStep
    \/ OrderEventReturn
    \/ PositionEventReturn
    \/ MatchEnd
    \/ PublishBar
    \/ OnBarReturn
    \/ RecordBalance
    \/ Finish

SpecCash == InitCash /\ [][NextCash]_vars

\* the cost of a BUY fill: notional plus commission, in thousandths
CostOf(f) == FillNotional(f) + f.last_qty * f.last_px * f.rate

\* C36 as stated: on a CASH-account venue the account's free base-currency
\* balance never falls below zero, and a BUY whose notional plus commission
\* exceeds the free balance is not filled.
C36_FreeBalanceNeverNegative ==
    /\ BalanceFree(exch.account)[1] >= 0
    /\ \A x \in AllFills :
         LET f == hist[x[1]].fills[x[2]]
         IN  cache.orders[x[1]].side = "BUY" => CostOf(f) <= f.balance_before[1]

\* C36, what the code does: a matched market order is filled whatever the
\* account holds; the fill leaves the free balance at the balance before less
\* the cost (BUY) or plus the proceeds (SELL), rounded to the cent, and the
\* balance is below zero exactly when the cost exceeded it.
C36_FillDebitsWhateverTheBalance ==
    /\ \A id \in DOMAIN cache.orders :
         LET nb == NextBarOf(1, hist[id].bar)
         IN  (hist[id].accepted /\ nb # 0 /\ Matched(nb)) => Len(hist[id].fills) = 1
    /\ \A x \in AllFills :
         LET o == cache.orders[x[1]]
             f == hist[x[1]].fills[x[2]]
             c == f.last_qty * f.last_px * f.rate
         IN  /\ f.balance_after = Some(Quantize(PostedBalance(f, o.side, c), 10))
             /\ o.side = "BUY" =>
                  (f.balance_after[1] < 0 <=> Quantize(CostOf(f), 10) > f.balance_before[1])

\* a BUY that cost more than the account held has been filled and the free
\* balance is below zero
C36_BalanceBelowZero ==
    /\ BalanceFree(exch.account)[1] < 0
    /\ \E x \in AllFills :
         LET f == hist[x[1]].fills[x[2]]
         IN  /\ cache.orders[x[1]].side = "BUY"
             /\ cache.orders[x[1]].status = "FILLED"
             /\ CostOf(f) > f.balance_before[1]
             /\ f.balance_after = BalanceFree(exch.account)


(***************************************************************************)
(* Claims about the bounds of a fill price (checked under SpecMatch).      *)
(***************************************************************************)
\* the order's limit and trigger prices, where it has them, have precision prec
OrderPricesAt(o, prec) ==
    /\ o.price # None => o.price[1] \in PxOfPrec(prec)
    /\ o.trigger_price # None => o.trigger_price[1] \in PxOfPrec(prec)

\* the fill price px is on the order's side of its limit and trigger prices
WithinOrderBounds(o, px) ==
    /\ (o.order_type \in {"LIMIT", "STOP_LIMIT"} /\ o.side = "BUY") => px <= o.price[1]
    /\ (o.order_type \in {"LIMIT", "STOP_LIMIT"} /\ o.side = "SELL") => px >= o.price[1]
    /\ (o.order_type = "STOP_MARKET" /\ o.side = "BUY") => px >= o.trigger_price[1]
    /\ (o.order_type = "STOP_MARKET" /\ o.side = "SELL") => px <= o.trigger_price[1]

\* C37 as stated: for a bar with L <= O <= H and a resting order whose prices
\* are at the instrument's price precision, a fill price lies within [L, H];
\* a BUY LIMIT or STOP_LIMIT never fills above its limit and a SELL one never
\* below it; a BUY STOP_MARKET never fills below its trigger and a SELL one
\* never above it.
C37_FillWithinBarAndOrderBounds ==
    (/\ chk.called
     /\ chk.fill_px # None
     /\ OrderPricesAt(chk.order, chk.cache.instruments[1].price_precision)) =>
        /\ chk.bar.low <= chk.fill_px[1]
        /\ chk.fill_px[1] <= chk.bar.high
        /\ WithinOrderBounds(chk.order, chk.fill_px[1])

\* C37 amended: with P the price precision the exchange rounds to (the
\* instrument's price_precision when the exchange has registered the
\* instrument, the precision of the bar's open otherwise), for a bar with
\* L <= O <= H and a resting order whose prices are at precision P: the fill
\* price is on the order's side of its limit and trigger as stated, and it
\* lies within [L, H] when the order is a MARKET order or the bar's open is at
\* precision P as well.
C37_FillWithinBarWhenOpenAtPrecision ==
    (/\ chk.called
     /\ chk.fill_px # None
     /\ OrderPricesAt(chk.order, ExchangePrecision)) =>
        /\ WithinOrderBounds(chk.order, chk.fill_px[1])
        /\ (chk.order.order_type = "MARKET" \/ chk.bar.open \in PxOfPrec(ExchangePrecision)) =>
              /\ chk.bar.low <= chk.fill_px[1]
              /\ chk.fill_px[1] <= chk.bar.high

\* a BUY LIMIT at the instrument's precision has been filled above the high of
\* a bar whose open is finer than that precision
C37_Witness ==
    /\ chk.called
    /\ chk.order.order_type = "LIMIT"
    /\ chk.order.side = "BUY"
    /\ 1 \in chk.exch.instruments
    /\ OrderPricesAt(chk.order, ExchangePrecision)
    /\ chk.bar.open \notin PxOfPrec(ExchangePrecision)
    /\ chk.fill_px # None
    /\ chk.fill_px[1] > chk.bar.high
    /\ chk.fill_px[1] <= chk.order.price[1]


(***************************************************************************)
(* SpecIds: a run in which the strategy may reset its order factory.  The  *)
(* exchange holds order objects, the cache holds one object per client     *)
(* order id, and every event reaches the object the cache holds for the    *)
(* event's id.                                                             *)
(***************************************************************************)
\* number of orders the strategy submits in a run with factory resets
MaxIdOrders == 3
\* number of bars in a run with factory resets
MaxIdBars == 2

\* Order.apply on the object the cache holds for the event's client order id
\* (ExecutionEngine._handle_order_event, _handle_fill); s.err is what apply
\* raised
ApplyToCached(s, client_order_id, e) ==
    LET target == s.cache[client_order_id]
        r == Apply(s.objs[target], e)
    IN  [s EXCEPT !.objs[target] = r.o,
                  !.history[target] =
                      IF r.err = "none" THEN Append(@, r.o.status) ELSE @,
                  !.err = r.err]

\* ExecutionEngine.submit_order of a new order object for quantity qty, then
\* SimulatedExchange.process_order: the cache entry of the id is replaced by
\* the new object before the OrderAccepted event is looked up
SubmitObject(s, qty) ==
    LET made == NextOrderId(s.factory)
        cid == s.factory.counter + 1
        o == NewOrder(cid, 1, 1, "MARKET", "BUY", qty, 0, None, 0, None, 0, 0)
        r == Apply(o, StatusEvent("OrderSubmitted", 0, 0))
        k == Len(s.objs) + 1
        s1 == [s EXCEPT !.objs = Append(@, r.o),
                        !.history = Append(@, <<"INITIALIZED", r.o.status>>),
                        !.cache = [c \in DOMAIN @ |-> IF c = cid THEN k ELSE @[c]],
                        !.factory = made.factory]
        s2 == ApplyToCached(s1, cid, StatusEvent("OrderAccepted", 0, k))
    IN  [s2 EXCEPT !.open_orders = Append(@, k)]

\* SimulatedExchange.process_bar over the open orders from position i on:
\* each open market order is filled for its leaves_qty, the OrderFilled event
\* carrying its client order id; an exception ends the run
RECURSIVE ProcessObjects(_, _, _)
ProcessObjects(s, i, ts) ==
    IF i > Len(s.open_orders) \/ s.err # "none" THEN s
    ELSE LET o == s.objs[s.open_orders[i]]
         IN  IF ~is_open(o)
             THEN ProcessObjects([s EXCEPT !.orders_to_remove = Append(@, s.open_orders[i])],
                                 i + 1, ts)
             ELSE ProcessObjects(
                      [ApplyToCached(s, o.client_order_id,
                                     FilledEvent(ts, o.venue_order_id, o.leaves_qty, 10))
                         EXCEPT !.orders_to_remove = Append(@, s.open_orders[i])],
                      i + 1, ts)

\* the tail of process_bar: the processed orders leave the list
RemoveProcessed(s) ==
    IF s.err # "none" THEN s
    ELSE [s EXCEPT !.open_orders = SelectSeq(@, LAMBDA k : ~InSeq(s.orders_to_remove, k)),
                   !.orders_to_remove = << >>]

InitIds ==
    /\ \E strategy_id \in StrategyIdSet :
         chk = [cache |-> [c \in 1..MaxIdOrders |-> 0],
                err |-> "none",
                open_orders |-> << >>,
                orders_to_remove |-> << >>,
                bars |-> 0,
                factory |-> [strategy_id |-> strategy_id, counter |-> 0],
                objs |-> << >>,
                history |-> << >>]
    /\ IdleOrd
    /\ IdlePos
    /\ IdleEng

IdsSubmitOrder ==
    \E qty \in {10, 20} :
        /\ chk.err = "none"
        /\ Len(chk.objs) < MaxIdOrders
        /\ chk' = SubmitObject(chk, qty)
        /\ UNCHANGED <<varsOrd, varsPos, varsEng>>

IdsFactoryReset ==
    /\ chk.err = "none"
    /\ chk.factory.counter > 0
    /\ chk' = [chk EXCEPT !.factory = FactoryReset(@)]
    /\ UNCHANGED <<varsOrd, varsPos, varsEng>>

IdsProcessBar ==
    /\ chk.err = "none"
    /\ chk.bars < MaxIdBars
    /\ chk' = RemoveProcessed(
                  ProcessObjects([chk EXCEPT !.bars = @ + 1], 1, chk.bars + 1))
    /\ UNCHANGED <<varsOrd, varsPos, varsEng>>

NextIds == IdsSubmitOrder \/ IdsFactoryReset \/ IdsProcessBar

SpecIds == InitIds /\ [][NextIds]_vars

(***************************************************************************)
(* Claims about an order's status history.                                 *)
(***************************************************************************)
IsPrefixOf(s, t) == Len(s) <= Len(t) /\ \A i \in 1..Len(s) : s[i] = t[i]

\* the status histories the lifecycle allows
AllowedHistory(h) ==
    \/ IsPrefixOf(h, <<"INITIALIZED", "DENIED">>)
    \/ IsPrefixOf(h, <<"INITIALIZED", "SUBMITTED", "ACCEPTED", "FILLED">>)
    \/ IsPrefixOf(h, <<"INITIALIZED", "SUBMITTED", "ACCEPTED", "CANCELED">>)

\* the statuses no order is to reach
NeverStatuses ==
    {"REJECTED", "EXPIRED", "TRIGGERED", "PENDING_UPDATE", "PENDING_CANCEL",
     "PARTIALLY_FILLED"}

\* C38 as stated: every order's status history is a prefix of INITIALIZED ->
\* DENIED or of INITIALIZED -> SUBMITTED -> ACCEPTED -> (FILLED | CANCELED);
\* REJECTED, EXPIRED, TRIGGERED, PENDING_UPDATE, PENDING_CANCEL and
\* PARTIALLY_FILLED are never reached; an order submitted to a registered
\* venue is ACCEPTED when submit_order returns.
C38_StatusHistoryIsLifecyclePrefix ==
    \A k \in DOMAIN chk.objs :
        /\ AllowedHistory(chk.history[k])
        /\ chk.objs[k].status \notin NeverStatuses
        /\ Len(chk.history[k]) >= 3 /\ chk.history[k][3] = "ACCEPTED"

\* the status an order's recorded events leave it in, one per event
StatusesOf(o) ==
    [i \in DOMAIN o.events |->
        IF o.events[i].type = "OrderFilled"
        THEN (IF i = Len(o.events) THEN o.status ELSE "PARTIALLY_FILLED")
        ELSE EventToStatus(o.events[i].type)]

\* C38, what holds: in a run whose client order ids are distinct (the factory
\* is not reset) every order's status history is such a prefix, none of the
\* six statuses is reached, and outside the callbacks of its own submission
\* an order the risk engine let through is ACCEPTED or further.
C38_LifecyclePrefixWithDistinctIds ==
    \A id \in DOMAIN cache.orders :
        LET o == cache.orders[id]
        IN  /\ AllowedHistory(StatusesOf(o))
            /\ o.status \notin NeverStatuses
            /\ o.status # "DENIED" => Len(o.events) >= 3

\* after a factory reset a second order took the id of a resting one; the
\* resting order's fill went to the second order, which passed through
\* PARTIALLY_FILLED, and the resting order is still ACCEPTED though it has
\* left the exchange
C38_FillWentToTheOtherOrder ==
    \E a \in DOMAIN chk.objs, b \in DOMAIN chk.objs :
        /\ a < b
        /\ chk.objs[a].client_order_id = chk.objs[b].client_order_id
        /\ chk.history[b] = <<"INITIALIZED", "SUBMITTED", "ACCEPTED",
                              "PARTIALLY_FILLED", "FILLED">>
        /\ chk.history[a] = <<"INITIALIZED", "SUBMITTED", "ACCEPTED">>
        /\ chk.err = "none"
        /\ ~InSeq(chk.open_orders, a)


(***************************************************************************)
(* Claims about the cache's order indices.                                 *)
(***************************************************************************)
\* Cache.orders_for_venue, as client order ids: the venue's index list (the
\* model has one venue, so every indexed order is on it)
CacheOrdersForVenue(c) == SelectSeq(c.index, LAMBDA id : id \in DOMAIN c.orders)

\* how many times the id occurs in the list
Occurrences(list, id) == Cardinality({i \in DOMAIN list : list[i] = id})

\* the three index queries return the order exactly n times each
ReturnedByEachIndex(id, n) ==
    LET o == cache.orders[id]
    IN  /\ Occurrences(CacheOrders(cache, Some(o.instrument_id), None), id) = n
        /\ Occurrences(CacheOrders(cache, None, Some(o.strategy_id)), id) = n
        /\ Occurrences(CacheOrdersForVenue(cache), id) = n

\* C39 as stated: every order returned by cache.orders() is also returned,
\* exactly once, by cache.orders(instrument_id=its instrument),
\* cache.orders(strategy_id=its strategy) and cache.orders_for_venue(its
\* venue); the same holds for orders denied by the risk engine.
C39_IndicesAgreeWithStore ==
    \A id \in SeqToSet(CacheOrders(cache, None, None)) : ReturnedByEachIndex(id, 1)

\* C39, what the code does: an order the risk engine let through is returned
\* exactly once by each of the three index queries; a denied order is in the
\* primary store and in none of the indices.
C39_DeniedOrdersAreInNoIndex ==
    \A id \in SeqToSet(CacheOrders(cache, None, None)) :
        IF cache.orders[id].status = "DENIED"
        THEN ReturnedByEachIndex(id, 0)
        ELSE ReturnedByEachIndex(id, 1)

\* cache.orders() returns a denied order that no index query returns
C39_DeniedOrderOnlyInStore ==
    \E id \in SeqToSet(CacheOrders(cache, None, None)) :
        /\ cache.orders[id].status = "DENIED"
        /\ hist[id].reason # ""
        /\ ReturnedByEachIndex(id, 0)


(***************************************************************************)
(* SpecLoop: advance_time on a TestClock with one timer, the while loop    *)
(* over the timer's due fire times taken one iteration at a time.          *)
(***************************************************************************)
\* the events list and the distance of next_time_ns below zero are followed
\* up to this many steps; past it they are kept at the bound
MaxEmitted == 6
\* number of advance_time calls on the clock with one timer
MaxLoopCalls == 2

\* the intervals set_timer is given: it accepts any integer
LoopIntervalSet == {-1, 0, 1, 2}

InitLoop ==
    /\ chk = [pc |-> "idle",
              timer |-> None,
              to_time_ns |-> 0,
              time_ns |-> 0,
              emitted |-> 0,
              calls |-> 0]
    /\ IdleOrd
    /\ IdlePos
    /\ IdleEng

\* Clock.set_timer on the clock without a timer
LoopSetTimer ==
    /\ chk.pc = "idle"
    /\ chk.timer = None
    /\ \E interval_ns \in LoopIntervalSet, start_time_ns \in StartSet,
          stop_time_ns \in StopSet :
         chk' = [chk EXCEPT !.timer =
                    Some(SetTimer([timers |-> << >>, time_ns |-> chk.time_ns], 1,
                                  interval_ns, start_time_ns,
                                  stop_time_ns).timers[1].timer)]
    /\ UNCHANGED <<varsOrd, varsPos, varsEng>>

\* TestClock.advance_time is called: the loop over the timers begins
LoopAdvanceTime ==
    /\ chk.pc = "idle"
    /\ chk.timer # None
    /\ chk.calls < MaxLoopCalls
    /\ \E to_time_ns \in chk.time_ns..MaxTime :
         chk' = [chk EXCEPT !.pc = "loop", !.to_time_ns = to_time_ns,
                            !.emitted = 0, !.calls = @ + 1]
    /\ UNCHANGED <<varsOrd, varsPos, varsEng>>

\* one test of the while condition and, when it holds, one pass of the body:
\* the loop is left when the next fire time is past the target or past the
\* stop time, otherwise an event is appended and next_time_ns moves by the
\* interval
LoopStep ==
    /\ chk.pc = "loop"
    /\ LET timer == chk.timer[1]
       IN  IF timer.next_time_ns > chk.to_time_ns
           THEN chk' = [chk EXCEPT !.pc = "done"]
           ELSE IF timer.stop_time_ns # None /\ timer.next_time_ns > timer.stop_time_ns[1]
           THEN chk' = [chk EXCEPT !.pc = "done", !.timer = None]
           ELSE chk' = [chk EXCEPT
                          !.emitted = Min(@ + 1, MaxEmitted),
                          !.timer = Some([timer EXCEPT !.next_time_ns =
                                            Max(@ + timer.interval_ns, -MaxEmitted)])]
    /\ UNCHANGED <<varsOrd, varsPos, varsEng>>

\* the tail of advance_time: the clock is set to the target and the events
\* are returned
LoopReturn ==
    /\ chk.pc = "done"
    /\ chk' = [chk EXCEPT !.pc = "idle", !.time_ns = chk.to_time_ns]
    /\ UNCHANGED <<varsOrd, varsPos, varsEng>>

NextLoop == LoopSetTimer \/ LoopAdvanceTime \/ LoopStep \/ LoopReturn

\* the interpreter keeps running a call that has begun
SpecLoop ==
    InitLoop /\ [][NextLoop]_vars /\ WF_vars(LoopStep) /\ WF_vars(LoopReturn)

\* C40 as stated: advance_time(to) terminates for every timer set_timer has
\* accepted (any interval_ns, start time and stop time) and every target
\* time: the loop over the timer's due fire times ends after finitely many
\* emitted events.
C40_AdvanceTimeTerminates == (chk.pc = "loop") ~> (chk.pc = "done")

\* C40, what holds: the loop ends for every timer whose interval is positive,
\* whatever its start and stop times and the target.
C40_TerminatesWithPositiveInterval ==
    (chk.pc = "loop" /\ chk.timer[1].interval_ns > 0) ~> (chk.pc = "done")

\* the loop of a timer whose interval is not positive has emitted more events
\* than there are times up to the target and is still running
C40_LoopStillRunning ==
    /\ chk.pc = "loop"
    /\ chk.timer[1].interval_ns <= 0
    /\ chk.timer[1].next_time_ns <= chk.to_time_ns
    /\ chk.emitted = MaxEmitted
    /\ chk.emitted > chk.to_time_ns + 1

====
